---- MODULE Spec2Model ----
(***************************************************************************)
(* A model of the sublimity-rpc controller (src/src/controller.ts): two    *)
(* controllers "A" and "B", each with its objectMap (weak), its            *)
(* functionRegistry (strong), its invocations and its FinalizationRegistry,*)
(* over one shared JavaScript heap, wired to each other's insertMessage.   *)
(***************************************************************************)
EXTENDS Integers, Sequences, FiniteSets, TLC

(***************************************************************************)
(* Bounds of the model.                                                    *)
(***************************************************************************)
\* user-level calls (invoke, iterate) made in all
MaxCalls == 3

\* the calls user code makes in SpecForge and in SpecRelease
MaxForgeCalls == 2

MaxReleaseCalls == 2

\* the calls user code makes in SpecCallback and in SpecPurge
MaxCallbackCalls == 3

MaxPurgeCalls == 2

\* the calls user code makes in SpecStream and in SpecAbort
MaxStreamCalls == 2

MaxAbortCalls == 3
\* messages the environment may fabricate and insert
MaxFab == 1
\* items a registered generator yields at most
MaxItems == 2

Ctl == {"A", "B"}

Peer(c) == IF c = "A" THEN "B" ELSE "A"

\* crypto.randomUUID(): the n-th identifier drawn by the code of controller c;
\* all draws are distinct.
UuidTable ==
  [A |-> << "a01", "a02", "a03", "a04", "a05", "a06", "a07", "a08", "a09", "a10",
            "a11", "a12", "a13", "a14", "a15", "a16", "a17", "a18", "a19", "a20" >>,
   B |-> << "b01", "b02", "b03", "b04", "b05", "b06", "b07", "b08", "b09", "b10",
            "b11", "b12", "b13", "b14", "b15", "b16", "b17", "b18", "b19", "b20" >>]

randomUUID(c, n) == UuidTable[c][n]

(***************************************************************************)
(* Finite maps (JavaScript Map): a function whose DOMAIN is the key set.   *)
(***************************************************************************)
EmptyMap == [x \in {} |-> 0]

MapSet(m, k, v) == [x \in (DOMAIN m) \cup {k} |-> IF x = k THEN v ELSE m[x]]

MapDelete(m, k) == [x \in (DOMAIN m) \ {k} |-> m[x]]

SeqRange(s) == {s[i] : i \in 1..Len(s)}

RemoveAt(s, i) == [j \in 1..(Len(s) - 1) |-> IF j < i THEN s[j] ELSE s[j + 1]]

(***************************************************************************)
(* Values crossing the API: plain values, references to heap objects       *)
(* (functions, AbortSignals), descriptors, error objects, undefined.       *)
(***************************************************************************)
Val(n) == [t |-> "val", id |-> "", n |-> n, name |-> ""]

Obj(o) == [t |-> "obj", id |-> "", n |-> o, name |-> ""]

\* a string
Str(str) == [t |-> "str", id |-> str, n |-> 0, name |-> ""]

\* __Descriptor { __srpcType, __srpcId }
Descriptor(type, id) == [t |-> type, id |-> id, n |-> 0, name |-> ""]

\* an Error (name, message)
Err(name, message) == [t |-> "error", id |-> message, n |-> 0, name |-> name]

Undefined == [t |-> "undefined", id |-> "", n |-> 0, name |-> ""]

\* the error with the stack property set to `stack` (n holds the stack of an
\* error, 0 when it has none)
WithStack(error, stack) == [error EXCEPT !.n = stack]

\* new Error(message): the runtime gives it the stack of the place it is made at
NewError(message) == WithStack(Err("Error", message), 1)

\* the settlement of a promise
Resolved(v) == [ok |-> TRUE, v |-> v]

Rejected(e) == [ok |-> FALSE, v |-> e]

NotFoundMessage(functionId) == "Function '" \o functionId \o "' is not found"

(***************************************************************************)
(* Messages (src/src/types.ts), one record shape for the five kinds.       *)
(***************************************************************************)
Message(kind, messageId, functionId, args, oneWay, payload) ==
  [kind |-> kind, messageId |-> messageId, functionId |-> functionId,
   args |-> args, oneWay |-> oneWay, payload |-> payload, seq |-> 0]

InvokeMessage(messageId, functionId, args, oneWay) ==
  Message("invoke", messageId, functionId, args, oneWay, Undefined)

ResultMessage(messageId, result) ==
  Message("result", messageId, "", << >>, FALSE, result)

ErrorMessage(messageId, error) ==
  Message("error", messageId, "", << >>, FALSE, error)

PurgeMessage(messageId, functionId) ==
  Message("purge", messageId, functionId, << >>, FALSE, Undefined)

NoneMessage(messageId) ==
  Message("none", messageId, "", << >>, FALSE, Undefined)

(***************************************************************************)
(* Heap objects: user functions ("fn", with the behaviour `body`), stub    *)
(* functions, abort functions and AbortSignals.  srpcId is the __srpcId    *)
(* marker ("" is undefined); alive is FALSE once collected; root says that *)
(* user code holds a strong reference.                                     *)
(***************************************************************************)
HeapObject(kind, body, fid, home, p, sig) ==
  [kind |-> kind, body |-> body, fid |-> fid, home |-> home, p |-> p,
   sig |-> sig, srpcId |-> "", alive |-> TRUE, root |-> FALSE,
   aborted |-> FALSE, listeners |-> << >>]

UserFunction(body, p) ==
  [HeapObject("fn", body, "", "", p, 0) EXCEPT !.root = TRUE]

UserSignal == [HeapObject("signal", "", "", "", 0, 0) EXCEPT !.root = TRUE]

IsFunction(h) == h.kind \in {"fn", "stub", "abortfn"}

VARIABLES
  heap,              \* the objects allocated so far
  objectMap,         \* per controller: functionId -> WeakRef (heap index)
  functionRegistry,  \* per controller: functionId -> function (strong)
  fr,                \* per controller: FinalizationRegistry cells
  invocations,       \* per controller: messageId -> Deferred
  net,               \* per controller: messages on their way to its insertMessage
  tasks,             \* target procedures being executed, by the invoke's messageId
  settled,           \* messageId -> settlement of the invocation's Deferred
  uuid,              \* per controller: crypto.randomUUID() draws so far
  issued,            \* messageId -> what invoke was called with, and by whom
  execs,             \* messageId -> the argument lists a target procedure was run with for it
  warns,             \* per controller: logger.warn calls for responses with no Deferred
  handles,           \* release handles returned by register
  gens,              \* messageId of an iterate -> its deferred generator
  nUser,             \* per controller: user-level calls made so far
  nFab,              \* messages fabricated so far
  fifo,              \* whether the transport delivers in send order
  sent,              \* per controller: messages sent to it (counted when fifo)
  replies,           \* (controller, messageId) -> the message its insertMessageWaitable was
                     \* given and the message it returned
  origin,            \* functionId -> the function the export transform gave it to
  released,          \* the controllers whose release has been called
  send,              \* per controller: what its onSendMessage callback does
  wnet,              \* per controller: messages on their way to its insertMessageWaitable
  failed,            \* the sends in which the callback threw, with the tables at that moment
  thrown,            \* the exception the last call of the API raised to its caller ("" is none)
  script,            \* the calls user code has made on the API, in order
  produceStackTrace, \* per controller: its produceStackTrace option
  dotnet             \* the tables of the .NET controller (AmebaRpcController)

vars == << heap, objectMap, functionRegistry, fr, invocations, net, tasks,
           settled, uuid, issued, execs, warns, handles, gens, nUser, nFab,
           fifo, sent, replies, origin, released, send, wnet, failed, thrown,
           script, produceStackTrace, dotnet >>

\* The whole state as one value, so that the code's functions compose.
World ==
  [heap |-> heap, objectMap |-> objectMap,
   functionRegistry |-> functionRegistry, fr |-> fr,
   invocations |-> invocations, net |-> net, tasks |-> tasks,
   settled |-> settled, uuid |-> uuid, issued |-> issued, execs |-> execs,
   warns |-> warns, handles |-> handles, gens |-> gens, fifo |-> fifo,
   sent |-> sent, replies |-> replies, origin |-> origin, released |-> released,
   send |-> send, wnet |-> wnet, failed |-> failed, thrown |-> "", script |-> script,
   produceStackTrace |-> produceStackTrace]

Commit(w) ==
  /\ heap' = w.heap
  /\ objectMap' = w.objectMap
  /\ functionRegistry' = w.functionRegistry
  /\ fr' = w.fr
  /\ invocations' = w.invocations
  /\ net' = w.net
  /\ tasks' = w.tasks
  /\ settled' = w.settled
  /\ uuid' = w.uuid
  /\ issued' = w.issued
  /\ execs' = w.execs
  /\ warns' = w.warns
  /\ handles' = w.handles
  /\ gens' = w.gens
  /\ sent' = w.sent
  /\ replies' = w.replies
  /\ origin' = w.origin
  /\ released' = w.released
  /\ wnet' = w.wnet
  /\ failed' = w.failed
  /\ thrown' = w.thrown
  /\ script' = w.script

\* The state right after createSublimityRpcController on both sides.
EmptyWorld ==
  [heap |-> << >>, objectMap |-> [c \in Ctl |-> EmptyMap],
   functionRegistry |-> [c \in Ctl |-> EmptyMap], fr |-> [c \in Ctl |-> {}],
   invocations |-> [c \in Ctl |-> EmptyMap], net |-> [c \in Ctl |-> {}],
   tasks |-> EmptyMap, settled |-> EmptyMap, uuid |-> [c \in Ctl |-> 0], issued |-> EmptyMap,
   execs |-> EmptyMap, warns |-> [c \in Ctl |-> 0], handles |-> {},
   gens |-> EmptyMap, fifo |-> FALSE, sent |-> [c \in Ctl |-> 0],
   replies |-> EmptyMap, origin |-> EmptyMap, released |-> {},
   send |-> [c \in Ctl |-> "insert"], wnet |-> [c \in Ctl |-> {}], failed |-> {},
   thrown |-> "", script |-> << >>,
   produceStackTrace |-> [c \in Ctl |-> FALSE]]

Alloc(w, h) == [w EXCEPT !.heap = Append(w.heap, h)]

(***************************************************************************)
(* WeakRef and FinalizationRegistry.                                       *)
(***************************************************************************)
\* objectMap.get(id)?.deref(): the referent, or 0 when absent or collected
Deref(w, c, id) ==
  IF id \in DOMAIN w.objectMap[c] /\ w.heap[w.objectMap[c][id]].alive
  THEN w.objectMap[c][id]
  ELSE 0

\* fr.register(target, heldValue, unregisterToken)
FrRegister(w, c, target, held) ==
  [w EXCEPT !.fr[c] = @ \cup {[target |-> target, held |-> held, token |-> target]}]

\* fr.unregister(token)
FrUnregister(w, c, token) ==
  [w EXCEPT !.fr[c] = {cell \in @ : cell.token # token}]

\* the embedder hands the message to the peer's insertMessage (seq is the
\* message's place in the order of sending, kept when the transport is one
\* that delivers in that order)
transport(w, c, message) ==
  IF w.fifo
  THEN [w EXCEPT !.net[Peer(c)] = @ \cup {[message EXCEPT !.seq = w.sent[Peer(c)] + 1]},
                 !.sent[Peer(c)] = @ + 1]
  ELSE [w EXCEPT !.net[Peer(c)] = @ \cup {message}]

\* the error a failing send callback throws
SendFailure == Err("Error", "send failed")

\* the tables of controller c at the moment its send callback threw
FailedSend(w, c, message) ==
  [c |-> c, message |-> message, functionRegistry |-> w.functionRegistry[c],
   objectMap |-> w.objectMap[c], invocations |-> w.invocations[c]]

RECURSIVE insertMessage(_, _, _)

\* onSendMessage of controller c.  "insert": it hands the message to a
\* transport that calls the peer's insertMessage later, and returns nothing;
\* "sync": it calls the peer's insertMessage itself, before it returns
\* (message => { peer.insertMessage(message); }); "async": as "insert" from an
\* async function, so that a promise of nothing is returned; "waitable": it
\* returns the promise of the peer's insertMessageWaitable; "throws": it throws
onSendMessage(w, c, message) ==
  CASE w.send[c] = "throws" -> [w EXCEPT !.failed = @ \cup {FailedSend(w, c, message)}]
    [] w.send[c] = "waitable" -> [w EXCEPT !.wnet[Peer(c)] = @ \cup {message}]
    [] w.send[c] = "sync" -> insertMessage(w, Peer(c), message)
    [] OTHER -> transport(w, c, message)

(***************************************************************************)
(* register and its release handle.                                        *)
(***************************************************************************)
\* what register does once the marker check has passed
registerBody(w, c, functionId, f) ==
  LET w1 == [w EXCEPT !.heap[f].srpcId = functionId,
                      !.functionRegistry[c] = MapSet(@, functionId, f),
                      !.objectMap[c] = MapSet(@, functionId, f)]
      w2 == FrRegister(w1, c, f, functionId)
  IN  [w2 EXCEPT !.handles = @ \cup {[c |-> c, functionId |-> functionId, f |-> f]}]

\* a register that does not look at the marker
registerAnyway(w, c, functionId, f) == registerBody(w, c, functionId, f)

\* register(functionId, f): throws when f already carries the marker
register(w, c, functionId, f) ==
  IF w.heap[f].srpcId # ""
  THEN [w EXCEPT !.thrown = "Function " \o w.heap[f].srpcId \o " already registered."]
  ELSE registerBody(w, c, functionId, f)

\* the release closure of the handle register returned
releaseHandle(w, h) ==
  LET w1 == [w EXCEPT !.functionRegistry[h.c] = MapDelete(@, h.functionId)]
      w2 == FrUnregister(w1, h.c, h.f)
  IN  [w2 EXCEPT !.heap[h.f].srpcId = ""]

(***************************************************************************)
(* The export transform: tryRegisterSpecialObject is the state after the   *)
(* call for one value, specialObject the value it returns.                 *)
(***************************************************************************)
\* the identifier crypto.randomUUID() gives controller c next
nextUUID(w, c) == randomUUID(c, w.uuid[c] + 1)

\* the branch for a function that carries no marker yet
registerAnonymous(w, c, o) ==
  LET functionId == nextUUID(w, c)
      w1 == [w EXCEPT !.uuid[c] = @ + 1,
                      !.heap[o].srpcId = functionId,
                      !.objectMap[c] = MapSet(@, functionId, o)]
  IN  [FrRegister(w1, c, o, functionId) EXCEPT
         !.functionRegistry[c] = MapSet(@, functionId, o),
         !.origin = MapSet(@, functionId, o)]

\* the branch for an AbortSignal that carries no marker yet
registerSignal(w, c, o) ==
  LET abortSignalId == nextUUID(w, c)
      w1 == [w EXCEPT !.uuid[c] = @ + 1,
                      !.heap[o].srpcId = abortSignalId,
                      !.objectMap[c] = MapSet(@, abortSignalId, o)]
  IN  [FrRegister(w1, c, o, abortSignalId) EXCEPT
         !.heap[o].listeners = Append(@, [c |-> c, abortSignalId |-> abortSignalId])]

IsSignal(w, arg) == arg.t = "obj" /\ w.heap[arg.n].kind = "signal"

IsFunctionValue(w, arg) == arg.t = "obj" /\ IsFunction(w.heap[arg.n])

\* an export transform that does not look at the marker
tryRegisterAgain(w, c, arg) ==
  IF IsFunctionValue(w, arg) THEN registerAnonymous(w, c, arg.n)
  ELSE IF IsSignal(w, arg) THEN registerSignal(w, c, arg.n)
  ELSE w

tryRegisterSpecialObject(w, c, arg) ==
  IF IsFunctionValue(w, arg) /\ w.heap[arg.n].srpcId = ""
  THEN registerAnonymous(w, c, arg.n)
  ELSE IF IsSignal(w, arg) /\ w.heap[arg.n].srpcId = ""
  THEN registerSignal(w, c, arg.n)
  ELSE w

\* the descriptor, with the marker the object carries or the one it gets, or
\* the value itself
specialObject(w, c, arg) ==
  IF IsFunctionValue(w, arg) \/ IsSignal(w, arg)
  THEN Descriptor(IF IsSignal(w, arg) THEN "abort" ELSE "function",
                  IF w.heap[arg.n].srpcId = "" THEN nextUUID(w, c)
                  ELSE w.heap[arg.n].srpcId)
  ELSE arg

\* the loop over args of invoke and invokeOneWay: the state after it
RECURSIVE exportArgs(_, _, _)
exportArgs(w, c, args) ==
  IF args = << >> THEN w
  ELSE exportArgs(tryRegisterSpecialObject(w, c, Head(args)), c, Tail(args))

\* the loop over args of invoke and invokeOneWay: _args
RECURSIVE exportedArgs(_, _, _)
exportedArgs(w, c, args) ==
  IF args = << >> THEN << >>
  ELSE << specialObject(w, c, Head(args)) >>
         \o exportedArgs(tryRegisterSpecialObject(w, c, Head(args)), c, Tail(args))

(***************************************************************************)
(* The import transform: tryRegisterStubObject is the state after the call *)
(* for one value, stubObject the value it returns.                         *)
(***************************************************************************)
\* the stub created for a function descriptor with no live referent
createStub(w, c, functionId) ==
  LET o == Len(w.heap) + 1
      w1 == Alloc(w, [HeapObject("stub", "", functionId, c, 0, 0)
                        EXCEPT !.srpcId = functionId])
  IN  FrRegister([w1 EXCEPT !.objectMap[c] = MapSet(@, functionId, o)],
                 c, o, functionId)

\* the AbortController and abort function created for an abort descriptor
createAbortFunction(w, c, abortSignalId) ==
  LET s == Len(w.heap) + 1
      w1 == Alloc(w, HeapObject("signal", "", "", "", 0, 0))
      w2 == Alloc(w1, [HeapObject("abortfn", "", "", c, 0, s)
                         EXCEPT !.srpcId = abortSignalId])
  IN  [w2 EXCEPT !.objectMap[c] = MapSet(@, abortSignalId, s + 1),
                 !.functionRegistry[c] = MapSet(@, abortSignalId, s + 1)]

IsDescriptor(arg, type) == arg.id # "" /\ arg.t = type

\* an import that never finds the abort function of an earlier import
NoAbortFunction(w, c, id) == FALSE

\* whether objectMap leads to a live abort function for the identifier
HasAbortFunction(w, c, id) ==
  Deref(w, c, id) # 0 /\ w.heap[Deref(w, c, id)].kind = "abortfn"

tryRegisterStubObject(w, c, arg) ==
  IF IsDescriptor(arg, "function") /\ Deref(w, c, arg.id) = 0
  THEN createStub(w, c, arg.id)
  ELSE IF IsDescriptor(arg, "abort") /\ ~HasAbortFunction(w, c, arg.id)
  THEN createAbortFunction(w, c, arg.id)
  ELSE w

\* the stub function or AbortSignal, found or created, or the value itself
stubObject(w, c, arg) ==
  IF IsDescriptor(arg, "function")
  THEN Obj(IF Deref(w, c, arg.id) = 0 THEN Len(w.heap) + 1 ELSE Deref(w, c, arg.id))
  ELSE IF IsDescriptor(arg, "abort")
  THEN Obj(IF HasAbortFunction(w, c, arg.id) THEN w.heap[Deref(w, c, arg.id)].sig
           ELSE Len(w.heap) + 1)
  ELSE arg

\* the loop over message.args of insertMessage: the state after it
RECURSIVE importArgs(_, _, _)
importArgs(w, c, args) ==
  IF args = << >> THEN w
  ELSE importArgs(tryRegisterStubObject(w, c, Head(args)), c, Tail(args))

\* the loop over message.args of insertMessage: _args
RECURSIVE importedArgs(_, _, _)
importedArgs(w, c, args) ==
  IF args = << >> THEN << >>
  ELSE << stubObject(w, c, Head(args)) >>
         \o importedArgs(tryRegisterStubObject(w, c, Head(args)), c, Tail(args))

(***************************************************************************)
(* invoke.                                                                 *)
(***************************************************************************)
\* extractAbortSignal: the last AbortSignal among args, 0 when there is none
RECURSIVE extractAbortSignal(_, _)
extractAbortSignal(w, args) ==
  IF args = << >> THEN 0
  ELSE IF IsSignal(w, args[Len(args)]) THEN args[Len(args)].n
  ELSE extractAbortSignal(w, SubSeq(args, 1, Len(args) - 1))

\* createDeferred(signal) and invocations.set(messageId, deferred)
setInvocation(w, c, messageId, signal) ==
  [w EXCEPT !.invocations[c] = MapSet(@, messageId, [signal |-> signal])]

\* deferred.resolve / deferred.reject: a promise settles once; a value handed
\* to user code is then held by it; for the invoke of iterate, its then and
\* catch callbacks end the generator (deferredGenerator.return / throw)
settle(w, messageId, outcome) ==
  IF messageId \in DOMAIN w.settled THEN w
  ELSE LET w1 == [w EXCEPT !.settled = MapSet(@, messageId, outcome)]
           g == w.issued[messageId].gen
       IN  IF g # 0
           THEN [w1 EXCEPT !.gens[g].state = IF outcome.ok THEN "done" ELSE "failed",
                           !.gens[g].error = outcome.v]
           ELSE IF outcome.v.t = "obj" /\ w.issued[messageId].owner = "user"
           THEN [w1 EXCEPT !.heap[outcome.v.n].root = TRUE]
           ELSE w1

\* deferred.resolve / deferred.reject of the Deferred of messageId: invoke
\* has returned deferred.promise only when the send callback returned nothing
settleDeferred(w, messageId, outcome) ==
  IF w.issued[messageId].send \in {"insert", "sync"}
  THEN settle(w, messageId, outcome)
  ELSE w

\* invocations.delete(messageId)
deleteInvocation(w, c, message) ==
  [w EXCEPT !.invocations[c] = MapDelete(@, message.messageId)]

\* a catch block that rethrows and leaves the entry where it is
rethrow(w, c, messageId, error) == settle(w, messageId, Rejected(error))

\* the catch block of invoke: the entry is removed and the error rethrown,
\* which rejects the promise invoke returned
catchSend(w, c, messageId, error) ==
  settle(deleteInvocation(w, c, [messageId |-> messageId]), messageId, Rejected(error))

\* what follows the call of onSendMessage in invoke when it has not returned
\* a promise: deferred.promise is returned, or the catch block runs
afterSend(w, c, messageId) ==
  IF w.send[c] = "throws" THEN catchSend(w, c, messageId, SendFailure) ELSE w

\* an invoke that stores the Deferred only after the send callback has returned
invokeSendFirst(w, c, functionId, args, owner) ==
  LET messageId == nextUUID(w, c)
      w1 == [w EXCEPT !.uuid[c] = @ + 1,
                      !.issued = MapSet(@, messageId,
                         [c |-> c, functionId |-> functionId, args |-> args,
                          owner |-> owner, gen |-> 0, send |-> w.send[c]])]
      w2 == onSendMessage(exportArgs(w1, c, args), c,
                          InvokeMessage(messageId, functionId,
                                        exportedArgs(w1, c, args), FALSE))
  IN  afterSend(setInvocation(w2, c, messageId, extractAbortSignal(w, args)),
                c, nextUUID(w, c))

\* invoke(functionId, ...args) up to its first suspension: the return of
\* deferred.promise, or the await of what the send callback returned; its
\* messageId is nextUUID(w, c); owner is who awaits the promise ("user", or
\* the messageId of the task that called a stub)
invoke(w, c, functionId, args, owner) ==
  LET messageId == nextUUID(w, c)
      w1 == [w EXCEPT !.uuid[c] = @ + 1,
                      !.issued = MapSet(@, messageId,
                         [c |-> c, functionId |-> functionId, args |-> args,
                          owner |-> owner, gen |-> 0, send |-> w.send[c]])]
      w2 == setInvocation(exportArgs(w1, c, args), c, messageId,
                          extractAbortSignal(w, args))
      w3 == onSendMessage(w2, c, InvokeMessage(messageId, functionId,
                                               exportedArgs(w1, c, args), FALSE))
  IN  afterSend(w3, c, nextUUID(w, c))

\* the value a promise of nothing resolves with, as a response
NoMessage == Message("undefined", "", "", << >>, FALSE, Undefined)

\* a promise of a response that rejects with error
RejectedMessage(messageId, error) ==
  Message("rejected", messageId, "", << >>, FALSE, error)

UnexpectedResponse(response, messageId) ==
  Err("Error", "Unexpected response: " \o response.kind \o " for messageId: " \o messageId)

\* the result of a response is imported and returned
returnResult(w, c, messageId, result) ==
  settle(tryRegisterStubObject(w, c, result), messageId,
         Resolved(stubObject(w, c, result)))

\* the Error made of the error a message carries: error.stack += the carried
\* stack if produceStackTrace && message.error.stack
reconstructError(w, c, errorObj) ==
  IF w.produceStackTrace[c] /\ errorObj.n # 0
  THEN WithStack(Err(errorObj.name, errorObj.id), errorObj.n)
  ELSE Err(errorObj.name, errorObj.id)

\* an invoke that takes a response whatever messageId it carries
processAnyResponse(w, c, messageId, response) ==
  CASE response.kind = "result" -> returnResult(w, c, messageId, response.payload)
    [] response.kind = "error" ->
         settle(w, messageId, Rejected(reconstructError(w, c, response.payload)))
    [] response.kind = "none" -> settle(w, messageId, Resolved(Undefined))
    [] OTHER -> settle(w, messageId, Rejected(UnexpectedResponse(response, messageId)))

\* invoke after `await sendResult` has given `response`, the entry of
\* messageId being removed already
processResponse(w, c, messageId, response) ==
  CASE response.kind = "undefined" ->
         settle(w, messageId, Rejected(Err("TypeError",
                "Cannot read properties of undefined (reading 'kind')")))
    [] response.kind = "result" /\ response.messageId = messageId ->
         returnResult(w, c, messageId, response.payload)
    [] response.kind = "error" /\ response.messageId = messageId ->
         settle(w, messageId, Rejected(reconstructError(w, c, response.payload)))
    [] response.kind = "none" /\ response.messageId = messageId ->
         settle(w, messageId, Resolved(Undefined))
    [] OTHER -> settle(w, messageId, Rejected(UnexpectedResponse(response, messageId)))

\* the continuation of invoke once the promise the send callback returned
\* has settled
resumeInvoke(w, c, messageId, response) ==
  IF response.kind = "rejected" THEN catchSend(w, c, messageId, response.payload)
  ELSE processResponse(deleteInvocation(w, c, [messageId |-> messageId]), c,
                       messageId, response)

\* an invokeOneWay that registers a Deferred as invoke does
invokeOneWayTracked(w, c, functionId, args) ==
  LET w1 == [w EXCEPT !.uuid[c] = @ + 1]
  IN  onSendMessage(setInvocation(exportArgs(w1, c, args), c, nextUUID(w, c), 0), c,
                    InvokeMessage(nextUUID(w, c), functionId,
                                  exportedArgs(w1, c, args), TRUE))

\* invokeOneWay(functionId, ...args)
invokeOneWay(w, c, functionId, args) ==
  LET w1 == [w EXCEPT !.uuid[c] = @ + 1]
  IN  [onSendMessage(exportArgs(w1, c, args), c,
                     InvokeMessage(nextUUID(w, c), functionId,
                                   exportedArgs(w1, c, args), TRUE))
         EXCEPT !.thrown = IF w.send[c] = "throws" THEN SendFailure.id ELSE ""]

\* the message handleAbort of listener l sends
AbortMessage(w, l) == InvokeMessage(nextUUID(w, l.c), l.abortSignalId, << >>, TRUE)

\* AbortController.abort() on signal s: the 'abort' listeners run, first those
\* the export transform added (handleAbort), then those of createDeferred
RECURSIVE handleAbort(_, _)
handleAbort(w, listeners) ==
  IF listeners = << >> THEN w
  ELSE LET l == Head(listeners)
           w1 == [w EXCEPT !.uuid[l.c] = @ + 1,
                           !.issued = MapSet(@, nextUUID(w, l.c),
                              [c |-> l.c, functionId |-> l.abortSignalId,
                               args |-> << >>, owner |-> "signal", gen |-> 0,
                               send |-> w.send[l.c]])]
       IN  handleAbort(onSendMessage(w1, l.c, AbortMessage(w, l)), Tail(listeners))

RECURSIVE settleAll(_, _, _)
settleAll(w, messageIds, outcome) ==
  IF messageIds = {} THEN w
  ELSE settleAll(settleDeferred(w, CHOOSE x \in messageIds : TRUE, outcome),
                 messageIds \ {CHOOSE x \in messageIds : TRUE}, outcome)

\* the pending invocations whose Deferred was created with signal s
Attached(w, s) ==
  UNION {{m \in DOMAIN w.invocations[c] : w.invocations[c][m].signal = s} : c \in Ctl}

abort(w, s) ==
  IF w.heap[s].aborted THEN w
  ELSE settleAll(handleAbort([w EXCEPT !.heap[s].aborted = TRUE], w.heap[s].listeners),
                 Attached(w, s), Rejected(Err("AbortError", "aborted")))

(***************************************************************************)
(* iterate, and the consumer's `for await` over the generator it returns.  *)
(***************************************************************************)
DeferredGenerator(messageId) ==
  [queue |-> << >>, state |-> "open", error |-> Undefined, got |-> << >>,
   end |-> "", call |-> messageId]

\* iterate(functionId, ...args): deferredGenerator.yield is passed as the
\* callback, in front of args
iterate(w, c, functionId, args) ==
  LET y == Len(w.heap) + 1
      w1 == Alloc(w, [HeapObject("fn", "yield", "", "", 0, 0) EXCEPT !.root = TRUE])
  IN  [invoke(w1, c, functionId, << Obj(y) >> \o args, "user") EXCEPT
         !.issued[nextUUID(w, c)].gen = y,
         !.gens = MapSet(@, y, DeferredGenerator(nextUUID(w, c)))]

\* generator.next() of the consumer: the oldest queued item, or the end
next(w, o) ==
  IF w.gens[o].queue # << >>
  THEN [w EXCEPT !.gens[o].got = Append(@, Head(w.gens[o].queue)),
                 !.gens[o].queue = Tail(w.gens[o].queue)]
  ELSE [w EXCEPT !.gens[o].end = w.gens[o].state]

(***************************************************************************)
(* Target procedures.  A task is one execution of a target procedure for   *)
(* an invoke message; pc "ret" means its promise has settled with `out`    *)
(* and the dispatcher's await has yet to continue, pc "await" that it      *)
(* awaits the invocation `wait` it made through a stub.                    *)
(***************************************************************************)
Task(c, oneWay, waitable, f, args, pc, wait, i, out) ==
  [c |-> c, oneWay |-> oneWay, waitable |-> waitable, f |-> f, args |-> args,
   pc |-> pc, wait |-> wait, i |-> i, out |-> out]

\* a numeric argument, 0 when it is missing or no number
Num(args, k) == IF k <= Len(args) /\ args[k].t = "val" THEN args[k].n ELSE 0

NotAFunction == Rejected(Err("TypeError", "f is not a function"))

\* a procedure that ignores its arguments
ImmediateZero(h, args) == Resolved(Val(0))

\* the outcome of a user function that completes without calling back
Immediate(h, args) ==
  CASE h.body = "add" -> Resolved(Val(Num(args, 1) + Num(args, 2) + h.p))
    [] h.body = "plus" -> Resolved(Val(Num(args, 1) + h.p))
    [] h.body = "fail" -> Rejected(WithStack(Err("Error", "test"), h.p))
    [] h.body = "throw" -> Rejected(Err("Error", "test"))
    [] h.body = "failStr" -> Rejected(Str("test"))
    [] h.body = "failNum" -> Rejected(Val(h.p))
    [] h.body = "failUndef" -> Rejected(Undefined)
    [] h.body = "sig" -> Resolved(Val(h.p))
    [] h.body = "same" -> Resolved(IF Len(args) > 0 THEN args[1] ELSE Undefined)
    [] OTHER -> Resolved(Undefined)

\* the state of a call: the world, where it stands, the invocation it awaits
\* and its outcome
Returned(w, out) == [w |-> w, pc |-> "ret", wait |-> "", out |-> out]

\* a call that does not await the invocation a stub makes
callValueDetached(w, tid, callee, args) ==
  IF callee.t = "obj" /\ w.heap[callee.n].kind = "stub"
  THEN Returned(invoke(w, w.heap[callee.n].home, w.heap[callee.n].fid, args, tid),
                Resolved(Undefined))
  ELSE IF callee.t = "obj" /\ w.heap[callee.n].kind = "fn"
  THEN Returned(w, Immediate(w.heap[callee.n], args))
  ELSE Returned(w, NotAFunction)

\* calling the value `callee` with `args` from task tid: a stub invokes on its
\* own controller and the task awaits that invocation
callValue(w, tid, callee, args) ==
  IF callee.t = "obj" /\ w.heap[callee.n].kind = "stub"
  THEN [w |-> invoke(w, w.heap[callee.n].home, w.heap[callee.n].fid, args, tid),
        pc |-> "await", wait |-> nextUUID(w, w.heap[callee.n].home),
        out |-> Resolved(Undefined)]
  ELSE IF callee.t = "obj" /\ w.heap[callee.n].kind = "abortfn"
  THEN Returned(abort(w, w.heap[callee.n].sig), Resolved(Undefined))
  ELSE IF callee.t = "obj" /\ w.heap[callee.n].kind = "fn"
  THEN Returned(w, Immediate(w.heap[callee.n], args))
  ELSE Returned(w, NotAFunction)

\* what a procedure does next: it calls `callee` with `args` in world w, or it
\* completes with `out`
ThenCall(w, callee, args) ==
  [call |-> TRUE, w |-> w, callee |-> callee, args |-> args, out |-> Resolved(Undefined)]

ThenReturn(w, out) ==
  [call |-> FALSE, w |-> w, callee |-> Undefined, args |-> << >>, out |-> out]

perform(step, tid) ==
  IF step.call THEN callValue(step.w, tid, step.callee, step.args)
  ELSE Returned(step.w, step.out)

\* the first argument of a call, undefined when there is none
First(args) == IF Len(args) > 0 THEN args[1] ELSE Undefined

\* a wrapper that hands the items to the callback last first
generatorTurnReversed(w, h, args, i) ==
  IF i < h.p THEN ThenCall(w, First(args), << Val(h.p - i) >>)
  ELSE ThenReturn(w, Resolved(Undefined))

\* the generator wrapper of registerGenerator: the (i+1)-th turn of
\* `for await (const item of f(...args)) await callback(item)`
generatorTurn(w, h, args, i) ==
  IF i < h.p THEN ThenCall(w, First(args), << Val(i + 1) >>)
  ELSE ThenReturn(w, IF h.body = "genfail"
                    THEN Rejected(Err("Error", "Generator error"))
                    ELSE Resolved(Undefined))

\* deferredGenerator.yield(item): the item is queued for the consumer
yieldItem(w, o, item) ==
  IF o \in DOMAIN w.gens /\ w.gens[o].state = "open"
  THEN [w EXCEPT !.gens[o].queue = Append(@, item)]
  ELSE w

\* the first step of the object f called with args
firstStep(w, f, args) ==
  IF w.heap[f].kind # "fn" THEN ThenCall(w, Obj(f), args)
  ELSE CASE w.heap[f].body = "callArg" -> ThenCall(w, First(args), << Val(w.heap[f].p) >>)
         [] w.heap[f].body = "callFn" ->
              ThenCall(Alloc(w, HeapObject("fn", "plus", "", "", w.heap[f].p, 0)),
                    First(args), << Obj(Len(w.heap) + 1) >>)
         [] w.heap[f].body = "retFn" ->
              ThenReturn(Alloc(w, HeapObject("fn", "plus", "", "", Num(args, 1), 0)),
                        Resolved(Obj(Len(w.heap) + 1)))
         [] w.heap[f].body \in {"gen", "genfail"} -> generatorTurn(w, w.heap[f], args, 0)
         [] w.heap[f].body = "yield" ->
              ThenReturn(yieldItem(w, f, First(args)), Resolved(Undefined))
         [] OTHER -> ThenReturn(w, Immediate(w.heap[f], args))

\* f(..._args) up to its first suspension
callFunction(w, tid, f, args) == perform(firstStep(w, f, args), tid)

\* the continuation of a task whose awaited invocation has settled
resumeFunction(w, t, tid) ==
  perform(IF w.heap[t.f].kind = "fn" /\ w.heap[t.f].body \in {"gen", "genfail"}
             /\ w.settled[t.wait].ok
          THEN generatorTurn(w, w.heap[t.f], t.args, t.i + 1)
          ELSE ThenReturn(w, w.settled[t.wait]), tid)

(***************************************************************************)
(* The dispatcher: insertMessage.                                          *)
(***************************************************************************)
\* a dispatcher that answers nothing when the function is not found
sendNothing(w, c, message) == w

\* the response sent when the function is not found
sendNotFound(w, c, message) ==
  onSendMessage(w, c, ErrorMessage(message.messageId,
                                   NewError(NotFoundMessage(message.functionId))))

\* error.constructor.name of a thrown value that is no Error
ConstructorName(error) ==
  CASE error.t = "str" -> "String"
    [] error.t = "val" -> "Number"
    [] OTHER -> "Object"

\* String(error)
StringOf(error) ==
  CASE error.t = "str" -> error.id
    [] error.t = "val" -> ToString(error.n)
    [] OTHER -> "[object Object]"

\* the safe error object made of what the target function threw
seo(error) ==
  IF error.t = "error" THEN Err(error.name, error.id)
  ELSE Err(ConstructorName(error), StringOf(error))

\* the safe error object with the stack the option asks for: seo.stack is
\* set if produceStackTrace && error.stack
createSafeError(w, c, error) ==
  IF w.produceStackTrace[c] /\ error.n # 0 /\ error.t = "error"
  THEN WithStack(seo(error), error.n)
  ELSE seo(error)

\* (error as any).constructor throws when error is undefined
NoConstructor == Err("TypeError", "Cannot read properties of undefined (reading 'constructor')")

\* a dispatcher that sends no response
dropResponse(w, c, messageId, out) == w

\* what follows `await f(..._args)`: the error or the result is sent
sendResponse(w, c, messageId, out) ==
  IF ~out.ok
  THEN IF out.v.t = "undefined" THEN [w EXCEPT !.thrown = NoConstructor.name]
       ELSE onSendMessage(w, c, ErrorMessage(messageId, createSafeError(w, c, out.v)))
  ELSE onSendMessage(tryRegisterSpecialObject(w, c, out.v), c,
                     ResultMessage(messageId, specialObject(w, c, out.v)))

\* the promise insertMessageWaitable returned has not settled yet
Pending == Message("pending", "", "", << >>, FALSE, Undefined)

\* insertMessageWaitable of c, given message, returns response
Reply(w, c, message, response) ==
  [w EXCEPT !.replies = MapSet(@, << c, message.messageId >>,
                               [input |-> message, output |-> response])]

\* the catch block around `void f(..._args)`: a function that is not async and
\* throws has its error logged; a promise that rejects is not looked at
caughtOneWay(w, c, f) ==
  IF w.heap[f].kind = "fn" /\ w.heap[f].body = "throw"
  THEN [w EXCEPT !.warns[c] = @ + 1]
  ELSE w

\* the call k of f has reached its first suspension: a one-way call that has
\* returned is done, any other becomes a task; waitable says that
\* insertMessageWaitable is the caller, which answers a one-way invoke at once
startTask(k, c, message, f, args, waitable) ==
  IF message.oneWay /\ k.pc = "ret"
  THEN IF waitable
       THEN Reply(caughtOneWay(k.w, c, f), c, message, NoneMessage(message.messageId))
       ELSE caughtOneWay(k.w, c, f)
  ELSE [k.w EXCEPT
          !.replies = IF waitable
                      THEN MapSet(@, << c, message.messageId >>,
                             [input |-> message,
                              output |-> IF message.oneWay
                                         THEN NoneMessage(message.messageId)
                                         ELSE Pending])
                      ELSE @,
          !.tasks = MapSet(@, message.messageId,
             Task(c, message.oneWay, waitable, f, args, k.pc, k.wait, 0, k.out))]

\* the execution of f with the imported arguments is recorded
recordExec(w, tid, args) ==
  [w EXCEPT !.execs = MapSet(@, tid,
      Append(IF tid \in DOMAIN @ THEN @[tid] ELSE << >>, args))]

\* f is called with the imported arguments _args
callImported(w, c, message, f, args, waitable) ==
  startTask(callFunction(recordExec(w, message.messageId, args),
                         message.messageId, f, args),
            c, message, f, args, waitable)

\* the function was found: its arguments are imported and it is called
dispatchInvoke(w, c, message, f, waitable) ==
  callImported(importArgs(w, c, message.args), c, message, f,
               importedArgs(w, c, message.args), waitable)

insertInvoke(w, c, message) ==
  IF Deref(w, c, message.functionId) = 0 THEN sendNotFound(w, c, message)
  ELSE dispatchInvoke(w, c, message, Deref(w, c, message.functionId), FALSE)

\* a lookup that takes any pending Deferred, whatever identifier the message
\* carries
getDeferredAny(w, c, message) ==
  LET others == DOMAIN w.invocations[c] \ {message.messageId}
  IN  IF others # {} THEN CHOOSE m \in others : TRUE
      ELSE IF message.messageId \in DOMAIN w.invocations[c] THEN message.messageId
      ELSE ""

\* invocations.get(message.messageId): the key of the Deferred, "" when absent
getDeferred(w, c, message) ==
  IF message.messageId \in DOMAIN w.invocations[c] THEN message.messageId ELSE ""

\* the payload is imported and the Deferred resolved with it
resolveWith(w, c, deferred, payload) ==
  settleDeferred(tryRegisterStubObject(w, c, payload), deferred,
                 Resolved(stubObject(w, c, payload)))

\* a dispatcher that tells the peer of a result it did not expect
insertResultStrict(w, c, message) ==
  IF getDeferred(w, c, message) # ""
  THEN resolveWith(deleteInvocation(w, c, message), c, getDeferred(w, c, message),
                   message.payload)
  ELSE onSendMessage(w, c, ErrorMessage(message.messageId, Err("Error", "unexpected")))

insertResult(w, c, message) ==
  IF getDeferred(w, c, message) # ""
  THEN resolveWith(deleteInvocation(w, c, message), c, getDeferred(w, c, message),
                   message.payload)
  ELSE [w EXCEPT !.warns[c] = @ + 1]

\* message.error.message and message.error.name throw when the message
\* carries no error
insertError(w, c, message) ==
  IF message.payload.t = "undefined"
  THEN [(IF getDeferred(w, c, message) # "" THEN deleteInvocation(w, c, message) ELSE w)
          EXCEPT !.thrown = "TypeError"]
  ELSE IF getDeferred(w, c, message) # ""
  THEN settleDeferred(deleteInvocation(w, c, message), getDeferred(w, c, message),
                      Rejected(reconstructError(w, c, message.payload)))
  ELSE [w EXCEPT !.warns[c] = @ + 1]

\* a purge that drops the registration and leaves the function its __srpcId
purgeKeepingMarker(w, c, functionId, fobj) ==
  FrUnregister([w EXCEPT !.functionRegistry[c] = MapDelete(@, functionId),
                         !.objectMap[c] = MapDelete(@, functionId)], c, fobj)

\* the function object the purge removes loses its __srpcId
purgeFunction(w, c, functionId, fobj) ==
  [FrUnregister([w EXCEPT !.functionRegistry[c] = MapDelete(@, functionId),
                          !.objectMap[c] = MapDelete(@, functionId)], c, fobj)
     EXCEPT !.heap[fobj].srpcId = ""]

insertPurge(w, c, message) ==
  IF message.functionId \in DOMAIN w.functionRegistry[c]
  THEN purgeFunction(w, c, message.functionId,
                     w.functionRegistry[c][message.functionId])
  ELSE w

\* inner(message) of insertMessage, up to its first suspension
inner(w, c, message) ==
  CASE message.kind = "invoke" -> insertInvoke(w, c, message)
    [] message.kind = "result" -> insertResult(w, c, message)
    [] message.kind = "error" -> insertError(w, c, message)
    [] message.kind = "purge" -> insertPurge(w, c, message)
    [] OTHER -> w

\* `void promise`: the rejection of a promise nobody awaits reaches no caller
detach(w) == [w EXCEPT !.thrown = ""]

\* an insertMessage that would await inner(message)
insertMessageAwaited(w, c, message) == inner(w, c, message)

\* insertMessage(message): void inner(message)
insertMessage(w, c, message) == detach(inner(w, c, message))

\* what follows `await f(..._args)` in insertMessageWaitable: the error or the
\* result is returned
returnResponse(w, c, messageId, out) ==
  IF ~out.ok
  THEN [w EXCEPT !.replies[<< c, messageId >>].output =
                    IF out.v.t = "undefined" THEN RejectedMessage(messageId, NoConstructor)
                    ELSE ErrorMessage(messageId, createSafeError(w, c, out.v))]
  ELSE [tryRegisterSpecialObject(w, c, out.v) EXCEPT
          !.replies[<< c, messageId >>].output =
             ResultMessage(messageId, specialObject(w, c, out.v))]

\* the other kinds in insertMessageWaitable: the message is handled as in
\* insertMessage and returned as it is, unless the handling threw
echo(w, c, message) ==
  Reply(detach(w), c, message,
        IF w.thrown # "" THEN RejectedMessage(message.messageId, Err(w.thrown, ""))
        ELSE message)

\* insertMessageWaitable up to its first suspension
insertMessageWaitable(w, c, message) ==
  IF message.kind = "invoke"
  THEN IF Deref(w, c, message.functionId) = 0
       THEN Reply(w, c, message,
                  ErrorMessage(message.messageId,
                               NewError(NotFoundMessage(message.functionId))))
       ELSE dispatchInvoke(w, c, message, Deref(w, c, message.functionId), TRUE)
  ELSE echo(inner(w, c, message), c, message)

\* the dispatcher's await has continued: a response is sent to a one-way
\* invoke as to any other
answerAlways(w, t, tid, out) ==
  IF t.waitable THEN returnResponse(w, t.c, tid, out)
  ELSE detach(sendResponse(w, t.c, tid, out))

\* the dispatcher's await has continued with `out`: nothing is answered to a
\* one-way invoke
answer(w, t, tid, out) ==
  IF t.oneWay THEN w
  ELSE IF t.waitable THEN returnResponse(w, t.c, tid, out)
  ELSE detach(sendResponse(w, t.c, tid, out))

\* the call k of task t has moved on: it awaits again, or it has settled
continueTask(k, t, tid) ==
  IF k.pc = "await"
  THEN [k.w EXCEPT !.tasks[tid].wait = k.wait, !.tasks[tid].i = t.i + 1]
  ELSE answer([k.w EXCEPT !.tasks = MapDelete(@, tid)], t, tid, k.out)

\* a task moves on: its awaited invocation has settled, or its promise has
\* settled and the dispatcher answers
stepTask(w, tid) ==
  continueTask(IF w.tasks[tid].pc = "await"
               THEN resumeFunction(w, w.tasks[tid], tid)
               ELSE Returned(w, w.tasks[tid].out),
               w.tasks[tid], tid)

(***************************************************************************)
(* release of the controller.                                              *)
(***************************************************************************)
RECURSIVE unregisterAll(_, _, _)
unregisterAll(w, c, fs) ==
  IF fs = {} THEN w
  ELSE LET f == CHOOSE x \in fs : TRUE
       IN  unregisterAll(FrUnregister(w, c, f), c, fs \ {f})

release(w, c) ==
  LET fs == {w.functionRegistry[c][id] : id \in DOMAIN w.functionRegistry[c]}
      ds == DOMAIN w.invocations[c]
      w1 == [w EXCEPT !.objectMap[c] = EmptyMap,
                      !.functionRegistry[c] = EmptyMap,
                      !.invocations[c] = EmptyMap]
      w2 == unregisterAll(w1, c, fs)
      w3 == settleAll(w2, ds, Rejected(Err("Error", "Controller released")))
  IN  [w3 EXCEPT !.released = @ \cup {c}]

(***************************************************************************)
(* Garbage collection and finalization.                                    *)
(***************************************************************************)
InRegistry(w, o) ==
  \E c \in Ctl : \E id \in DOMAIN w.functionRegistry[c] : w.functionRegistry[c][id] = o

HeldByTask(w, o) ==
  \E tid \in DOMAIN w.tasks : Obj(o) \in SeqRange(w.tasks[tid].args)

\* whether a strong reference to o remains
Referenced(w, o) ==
  \/ w.heap[o].root
  \/ InRegistry(w, o)
  \/ HeldByTask(w, o)
  \/ \E a \in 1..Len(w.heap) :
       /\ w.heap[a].kind = "abortfn" /\ w.heap[a].sig = o /\ w.heap[a].alive
       /\ (w.heap[a].root \/ InRegistry(w, a))

\* a finalization callback that tells the peer nothing
finalizeSilently(w, c, cell) ==
  [w EXCEPT !.fr[c] = @ \ {cell}, !.objectMap[c] = MapDelete(@, cell.held)]

\* the callback of the FinalizationRegistry, for one cell whose target is gone
finalize(w, c, cell) ==
  LET w1 == [w EXCEPT !.fr[c] = @ \ {cell},
                      !.objectMap[c] = MapDelete(@, cell.held),
                      !.uuid[c] = @ + 1]
  IN  onSendMessage(w1, c, PurgeMessage(randomUUID(c, w.uuid[c] + 1), cell.held))
(***************************************************************************)
(* The .NET controller (dotnet/Ameba.Rpc/AmebaRpcController.cs) and its    *)
(* LooseFinalizationRegistry.  A delegate is a record with wrapper = 0;    *)
(* the wrapper Register makes around f (`async args => await f(args)`) is  *)
(* an object of its own, numbered from 1.  The registry is given as the    *)
(* set of its (key, objectId) entries whose key is alive.                  *)
(***************************************************************************)
Delegate(name) == [wrapper |-> 0, of |-> name]

Wrapper(n, f) == [wrapper |-> n, of |-> f.of]

\* the controller after construction
DotnetController ==
  [functionRegistry |-> EmptyMap, objectMap |-> EmptyMap, registry |-> {},
   disposers |-> {}, wrappers |-> 0, thrown |-> ""]

\* LooseFinalizationRegistry.ContainsKey(key)
ContainsKey(registry, key) == \E entry \in registry : entry.key = key

\* LooseFinalizationRegistry.Register(key, objectId), for a key it does not hold
RegistryRegister(registry, key, objectId) ==
  registry \cup {[key |-> key, objectId |-> objectId]}

\* LooseFinalizationRegistry.Unregister(key): the entry whose target is key is
\* removed, if there is one
Unregister(registry, key) == {entry \in registry : entry.key # key}

\* AmebaRpcController.Register(functionId, f); Dictionary.Add throws when the
\* key is present
DotnetRegister(s, functionId, f) ==
  IF ContainsKey(s.registry, f)
  THEN [s EXCEPT !.thrown = "InvalidOperationException"]
  ELSE IF functionId \in DOMAIN s.functionRegistry
  THEN [s EXCEPT !.thrown = "ArgumentException"]
  ELSE LET fobj == Wrapper(s.wrappers + 1, f)
           s1 == [s EXCEPT !.wrappers = @ + 1,
                           !.functionRegistry = MapSet(@, functionId, fobj)]
       IN  IF functionId \in DOMAIN s.objectMap
           THEN [s1 EXCEPT !.thrown = "ArgumentException"]
           ELSE [s1 EXCEPT !.objectMap = MapSet(@, functionId, f),
                           !.registry = RegistryRegister(@, f, functionId),
                           !.disposers = @ \cup {[functionId |-> functionId,
                                                  fobj |-> fobj]},
                           !.thrown = ""]

\* AmebaRpcController.InternalRelease(functionId, fobj), which Disposer.Dispose
\* calls
InternalRelease(s, functionId, fobj) ==
  [s EXCEPT !.functionRegistry = MapDelete(@, functionId),
            !.registry = Unregister(@, fobj),
            !.thrown = ""]

(***************************************************************************)
(* Actions: the calls user code makes, the transport, the runtime.         *)
(***************************************************************************)
Env == UNCHANGED << nFab, fifo, send, produceStackTrace, dotnet >>

Calls == nUser["A"] + nUser["B"]

\* user code calls controller c's invoke
UserInvoke(c, functionId, args) ==
  /\ Calls < MaxCalls
  /\ Commit(invoke(World, c, functionId, args, "user"))
  /\ nUser' = [nUser EXCEPT ![c] = @ + 1]
  /\ Env

\* the transport hands a message under way to c's insertMessage
Deliver(c, message) ==
  /\ message \in net[c]
  /\ fifo => \A other \in net[c] : message.seq <= other.seq
  /\ message.kind = "invoke" => message.messageId \notin DOMAIN tasks
  /\ Commit(insertMessage([World EXCEPT !.net[c] = @ \ {message}], c, message))
  /\ UNCHANGED nUser
  /\ Env

\* the runtime continues a task
StepTask(tid) ==
  /\ tid \in DOMAIN tasks
  /\ tasks[tid].pc = "await" => tasks[tid].wait \in DOMAIN settled
  /\ Commit(stepTask(World, tid))
  /\ UNCHANGED nUser
  /\ Env

\* user code calls controller c's release
Release(c) ==
  /\ Commit(release(World, c))
  /\ UNCHANGED nUser
  /\ Env

\* a message under way to c is handed to c's insertMessageWaitable: one that
\* the peer's send callback awaits the answer of, or one that the transport
\* could as well have handed to insertMessage
DeliverWaitable(c, message) ==
  /\ message \in wnet[c] \/ (message \in net[c] /\ message.kind # "invoke")
  /\ message.kind = "invoke" => message.messageId \notin DOMAIN tasks
  /\ Commit(insertMessageWaitable([World EXCEPT !.net[c] = @ \ {message},
                                                !.wnet[c] = @ \ {message}], c, message))
  /\ UNCHANGED nUser
  /\ Env

\* user code calls release() on the handle a registration returned
ReleaseHandle(h) ==
  /\ h \in handles
  /\ Commit(releaseHandle(World, h))
  /\ UNCHANGED nUser
  /\ Env

\* the environment inserts a message of its own making
Fabricate(c, message) ==
  /\ nFab < MaxFab
  /\ Commit(transport(World, Peer(c), message))
  /\ nFab' = nFab + 1
  /\ UNCHANGED << nUser, fifo, send, produceStackTrace, dotnet >>

\* the collector reclaims an object no strong reference leads to
Collect(o) ==
  /\ o \in 1..Len(heap)
  /\ heap[o].alive
  /\ ~Referenced(World, o)
  /\ Commit([World EXCEPT !.heap[o].alive = FALSE])
  /\ UNCHANGED nUser
  /\ Env

\* the FinalizationRegistry of c calls back for a collected target
Finalize(c, cell) ==
  /\ cell \in fr[c]
  /\ ~heap[cell.target].alive
  /\ Commit(finalize(World, c, cell))
  /\ UNCHANGED nUser
  /\ Env

\* user code calls controller c's iterate
UserIterate(c, functionId, args) ==
  /\ Calls < MaxCalls
  /\ Commit(iterate(World, c, functionId, args))
  /\ nUser' = [nUser EXCEPT ![c] = @ + 1]
  /\ Env

\* the consumer's `for await` takes its next step on the generator of o
Consume(o) ==
  /\ o \in DOMAIN gens
  /\ gens[o].end = ""
  /\ gens[o].queue # << >> \/ gens[o].state # "open"
  /\ Commit(next(World, o))
  /\ UNCHANGED nUser
  /\ Env

\* user code fires the AbortController of signal s
Abort(s) ==
  /\ s \in 1..Len(heap)
  /\ heap[s].kind = "signal" /\ heap[s].root
  /\ ~heap[s].aborted
  /\ Commit(abort(World, s))
  /\ UNCHANGED nUser
  /\ Env

\* user code drops its reference to an object
Drop(o) ==
  /\ o \in 1..Len(heap)
  /\ heap[o].root
  /\ Commit([World EXCEPT !.heap[o].root = FALSE])
  /\ UNCHANGED nUser
  /\ Env

(***************************************************************************)
(* Spec: the full-duplex scenario (tests/controller.test.ts,               *)
(* tests/concurrent-stress.test.ts).  Both sides have registered 'add';    *)
(* user code on both sides invokes 'add' and the unregistered 'nope'; the  *)
(* transport delivers in any order.                                        *)
(***************************************************************************)
\* the 'add' of A adds, the 'add' of B adds and adds 10
DuplexWorld ==
  LET w1 == Alloc(Alloc(EmptyWorld, UserFunction("add", 0)), UserFunction("add", 10))
  IN  register(register(w1, "A", "add", 1), "B", "add", 2)

InitFrom(w) ==
  /\ heap = w.heap
  /\ objectMap = w.objectMap
  /\ functionRegistry = w.functionRegistry
  /\ fr = w.fr
  /\ invocations = w.invocations
  /\ net = w.net
  /\ tasks = w.tasks
  /\ settled = w.settled
  /\ uuid = w.uuid
  /\ issued = w.issued
  /\ execs = w.execs
  /\ warns = w.warns
  /\ handles = w.handles
  /\ gens = w.gens
  /\ sent = w.sent
  /\ replies = w.replies
  /\ origin = w.origin
  /\ released = w.released
  /\ fifo = w.fifo
  /\ send = w.send
  /\ wnet = w.wnet
  /\ failed = w.failed
  /\ thrown = w.thrown
  /\ script = w.script
  /\ produceStackTrace = w.produceStackTrace
  /\ dotnet = DotnetController
  /\ nUser = [c \in Ctl |-> 0]
  /\ nFab = 0

Init == InitFrom(DuplexWorld)

DuplexArgs == {<< Val(1), Val(2) >>}

Next ==
  \/ \E c \in Ctl, f \in {"add", "nope"}, args \in DuplexArgs : UserInvoke(c, f, args)
  \/ \E c \in Ctl : \E message \in net[c] : Deliver(c, message)
  \/ \E tid \in DOMAIN tasks : StepTask(tid)

Spec == Init /\ [][Next]_vars

\* the transport loses nothing and the event loop runs every continuation
Fairness ==
  /\ \A c \in Ctl : WF_vars(\E message \in net[c] : Deliver(c, message))
  /\ WF_vars(\E tid \in DOMAIN tasks : StepTask(tid))

FairSpec == Spec /\ Fairness

(***************************************************************************)
(* SpecForge: the full-duplex scenario where the environment also inserts  *)
(* results, errors, purges and none messages of its own making, and where  *)
(* the transport may hand a response to insertMessageWaitable instead of   *)
(* insertMessage.                                                          *)
(***************************************************************************)
\* the identifiers a fabricated response may carry: any drawn so far, or none
FabIds == {randomUUID(c, n) : c \in Ctl, n \in 1..2} \cup {"bogus"}

FabResponses ==
  {ResultMessage(m, Val(99)) : m \in FabIds}
    \cup {ErrorMessage(m, Err("Error", "forged")) : m \in FabIds}
    \cup {PurgeMessage("bogus", "unknown"), NoneMessage("bogus"),
          NoneMessage(randomUUID("A", 1))}

NextForge ==
  \/ \E c \in Ctl, args \in DuplexArgs :
       Calls < MaxForgeCalls /\ UserInvoke(c, "add", args)
  \/ \E c \in Ctl : \E message \in net[c] : Deliver(c, message)
  \/ \E c \in Ctl : \E message \in net[c] : DeliverWaitable(c, message)
  \/ \E tid \in DOMAIN tasks : StepTask(tid)
  \/ \E c \in Ctl : \E m \in FabResponses : Fabricate(c, m)

SpecForge == Init /\ [][NextForge]_vars

(***************************************************************************)
(* SpecRelease: the full-duplex scenario where user code may also release  *)
(* either controller at any moment.                                        *)
(***************************************************************************)
NextRelease ==
  \/ \E c \in Ctl, args \in DuplexArgs :
       Calls < MaxReleaseCalls /\ UserInvoke(c, "add", args)
  \/ \E c \in Ctl : \E message \in net[c] : Deliver(c, message)
  \/ \E tid \in DOMAIN tasks : StepTask(tid)
  \/ \E c \in Ctl : Release(c)

SpecRelease == Init /\ [][NextRelease]_vars

(***************************************************************************)
(* SpecCallback: callbacks (tests/controller.test.ts 'callOne',            *)
(* tests/gc.test.ts).  B has registered 'callOne', which calls the         *)
(* function it is given with 1; A has registered 'inc' and holds the       *)
(* anonymous function g; user code on A invokes 'callOne' with g or with   *)
(* 'inc'; the collector reclaims stubs nothing refers to and the           *)
(* finalization callbacks run later, at any moment.                        *)
(***************************************************************************)
\* 1: 'callOne' of B; 2: g of A, x => x + 5; 3: 'inc' of A, x => x + 1
CallbackWorld ==
  LET w1 == Alloc(EmptyWorld, UserFunction("callArg", 1))
      w2 == Alloc(w1, UserFunction("plus", 5))
      w3 == Alloc(w2, UserFunction("plus", 1))
  IN  register(register(w3, "B", "callOne", 1), "A", "inc", 3)

InitCallback == InitFrom(CallbackWorld)

Callbacks == {<< Obj(2) >>, << Obj(3) >>}

NextCallback ==
  \/ \E args \in Callbacks :
       Calls < MaxCallbackCalls /\ UserInvoke("A", "callOne", args)
  \/ \E c \in Ctl : \E message \in net[c] : Deliver(c, message)
  \/ \E tid \in DOMAIN tasks : StepTask(tid)
  \/ \E o \in 1..Len(heap) : Collect(o)
  \/ \E c \in Ctl : \E cell \in fr[c] : Finalize(c, cell)

SpecCallback == InitCallback /\ [][NextCallback]_vars

(***************************************************************************)
(* SpecPurge: the callback scenario where the environment also inserts an  *)
(* invoke message of its own making that names the identifier of an        *)
(* anonymous callback (tests/gc.test.ts).                                  *)
(***************************************************************************)
\* the identifiers the anonymous callback g can get
CallbackIds == {randomUUID("A", n) : n \in 2..(2 * MaxPurgeCalls)}

FabInvokes == {InvokeMessage("fake", id, << Val(1) >>, FALSE) : id \in CallbackIds}

NextPurge ==
  \/ Calls < MaxPurgeCalls /\ UserInvoke("A", "callOne", << Obj(2) >>)
  \/ \E c \in Ctl : \E message \in net[c] : Deliver(c, message)
  \/ \E tid \in DOMAIN tasks : StepTask(tid)
  \/ \E o \in 1..Len(heap) : Collect(o)
  \/ \E c \in Ctl : \E cell \in fr[c] : Finalize(c, cell)
  \/ \E c \in Ctl : \E m \in FabInvokes : Fabricate(c, m)

SpecPurge == InitCallback /\ [][NextPurge]_vars

(***************************************************************************)
(* SpecStream: streaming (tests/controller.test.ts 'countUp',              *)
(* 'errorGenerator').  B has registered the generators 'countUp', which    *)
(* yields 1..MaxItems, and 'errorGenerator', which yields 1..MaxItems-1    *)
(* and then throws; user code on A iterates over them.                     *)
(***************************************************************************)
\* 1: fouter of 'countUp'; 2: fouter of 'errorGenerator'
StreamWorld ==
  LET w1 == Alloc(EmptyWorld, UserFunction("gen", MaxItems))
      w2 == Alloc(w1, UserFunction("genfail", MaxItems - 1))
  IN  register(register(w2, "B", "countUp", 1), "B", "errorGenerator", 2)

InitStream == InitFrom(StreamWorld)

NextStream ==
  \/ \E f \in {"countUp", "errorGenerator"} :
       Calls < MaxStreamCalls /\ UserIterate("A", f, << >>)
  \/ \E c \in Ctl : \E message \in net[c] : Deliver(c, message)
  \/ \E tid \in DOMAIN tasks : StepTask(tid)
  \/ \E o \in DOMAIN gens : Consume(o)

SpecStream == InitStream /\ [][NextStream]_vars

(***************************************************************************)
(* SpecAbort: cancellation (tests/abort-signal.test.ts).  B has registered *)
(* 'work', which takes an AbortSignal and returns at once; user code on A  *)
(* invokes it with the signal of its AbortController while that has not    *)
(* fired, and fires the controller at any moment; the transport delivers   *)
(* in any order.                                                           *)
(***************************************************************************)
\* 1: 'work' of B; 2: the AbortSignal of A's user code
AbortWorld ==
  LET w1 == Alloc(EmptyWorld, UserFunction("sig", 7))
      w2 == Alloc(w1, UserSignal)
  IN  register(w2, "B", "work", 1)

InitAbort == InitFrom(AbortWorld)

NextAbort ==
  \/ /\ Calls < MaxAbortCalls
     /\ ~heap[2].aborted
     /\ UserInvoke("A", "work", << Obj(2) >>)
  \/ Abort(2)
  \/ \E c \in Ctl : \E message \in net[c] : Deliver(c, message)
  \/ \E tid \in DOMAIN tasks : StepTask(tid)

SpecAbort == InitAbort /\ [][NextAbort]_vars

(***************************************************************************)
(* Claims about the full-duplex scenario.                                  *)
(***************************************************************************)
Responses == {"result", "error"}

\* the outcome a response message carries
Carried(message) ==
  IF message.kind = "result" THEN Resolved(message.payload)
  ELSE Rejected(Err(message.payload.name, message.payload.id))

\* the step hands response message msg to controller c
Inserted(c, msg) == msg \in net[c] /\ msg \notin net'[c] /\ msg.kind \in Responses

\* C1: a result or an error inserted into a controller (insertMessage or
\* insertMessageWaitable) completes exactly the pending invocation whose messageId
\* it carries, with the outcome it carries, and removes that entry; no other
\* pending invocation of either controller is completed or removed; when no
\* entry has that messageId nothing is completed and a warning is logged.
C1IdentifierCorrelation ==
  [][\A c \in Ctl : \A msg \in net[c] :
       Inserted(c, msg) =>
         /\ DOMAIN invocations'[c] = DOMAIN invocations[c] \ {msg.messageId}
         /\ invocations'[Peer(c)] = invocations[Peer(c)]
         /\ \A m \in DOMAIN settled : m \in DOMAIN settled' /\ settled'[m] = settled[m]
         /\ DOMAIN settled' \subseteq DOMAIN settled \cup {msg.messageId}
         /\ msg.messageId \in DOMAIN invocations[c] /\ msg.messageId \notin DOMAIN settled
              => /\ msg.messageId \in DOMAIN settled'
                 /\ settled'[msg.messageId] = Carried(msg)
         /\ msg.messageId \notin DOMAIN invocations[c]
              => settled' = settled /\ warns'[c] = warns[c] + 1]_vars

\* a fabricated response was discarded by a controller that has completed one
\* invocation and still has another pending
C1Witness ==
  \E c \in Ctl :
    /\ warns[c] > 0
    /\ DOMAIN invocations[c] # {}
    /\ \E m \in DOMAIN settled : issued[m].c = c

AddIssued(m) == m \in DOMAIN issued /\ issued[m].functionId = "add"

\* what 'add' of the peer of the caller returns for the arguments of call m
ExpectedAdd(m) ==
  LET target == IF issued[m].c = "A" THEN 2 ELSE 1
  IN  Val(issued[m].args[1].n + issued[m].args[2].n + heap[target].p)

AddResolved(m) ==
  AddIssued(m) /\ m \in DOMAIN settled /\ settled[m] = Resolved(ExpectedAdd(m))

\* C2: with both controllers wired to each other over fair asynchronous
\* channels, every invoke of a function registered on the other side eventually
\* resolves at the caller with that procedure's result, whichever side calls
\* and while calls of the other direction are under way.
\* (calls are issued finitely often and a resolved promise stays resolved, so
\* this is: from some moment on, every call issued has resolved)
C2FullDuplex ==
  <>[](\A m \in DOMAIN issued : AddIssued(m) => AddResolved(m))

\* A's call has resolved with the result of B's 'add' while A is executing a
\* call of B that is still pending at B
C2Witness ==
  \E m \in DOMAIN settled : \E n \in DOMAIN invocations["B"] :
    /\ issued[m].c = "A" /\ AddResolved(m)
    /\ AddIssued(n) /\ n \in DOMAIN tasks

\* the outcome the caller of m is to receive
ExpectedOutcome(m) ==
  IF AddIssued(m) THEN Resolved(ExpectedAdd(m))
  ELSE Rejected(Err("Error", NotFoundMessage(issued[m].functionId)))

Quiescent == (\A c \in Ctl : net[c] = {}) /\ tasks = EmptyMap

\* C3: for any number of invocations issued concurrently from both sides and
\* any order of delivery, each target procedure is executed exactly once per
\* invoke with the arguments of that invoke, every caller receives exactly the
\* outcome of its own call, no response is discarded, and when everything has
\* been delivered no invocation is left pending.
C3ConcurrencySafety ==
  /\ \A m \in DOMAIN execs :
       /\ AddIssued(m)
       /\ execs[m] = << issued[m].args >>
  /\ \A m \in DOMAIN settled :
       /\ settled[m] = ExpectedOutcome(m)
       /\ m \notin DOMAIN invocations[issued[m].c]
       /\ AddIssued(m) => m \in DOMAIN execs
  /\ \A c \in Ctl : warns[c] = 0
  /\ Quiescent =>
       /\ DOMAIN settled = DOMAIN issued
       /\ \A c \in Ctl : invocations[c] = EmptyMap

\* of two calls one controller has under way together with a call of its peer,
\* the later one has completed before the earlier one
C3Witness ==
  \E c \in Ctl : \E i \in 1..MaxCalls : \E j \in 1..MaxCalls :
    /\ i < j
    /\ randomUUID(c, j) \in DOMAIN settled
    /\ AddIssued(randomUUID(c, i))
    /\ randomUUID(c, i) \in DOMAIN invocations[c]
    /\ invocations[Peer(c)] # EmptyMap

(***************************************************************************)
(* Claims about release of the controller.                                 *)
(***************************************************************************)
ControllerReleased == Rejected(Err("Error", "Controller released"))

\* C9: release rejects every invocation pending at that moment with an error
\* whose message is 'Controller released' and leaves invocations empty, and an
\* invoke issued after release leaves no entry in invocations.
C9ReleaseCompleteness ==
  [][\A c \in Ctl :
       /\ Release(c) =>
            /\ invocations'[c] = EmptyMap
            /\ \A m \in DOMAIN invocations[c] :
                 m \in DOMAIN settled' /\ settled'[m] = ControllerReleased
       /\ c \in released => invocations'[c] = EmptyMap]_vars

(***************************************************************************)
(* Claims about callbacks, stubs and purge.                                *)
(***************************************************************************)
\* what the function user code passed in call m returns for 1
CallOneResult(m) == Resolved(Val(1 + heap[issued[m].args[1].n].p))

\* what the function exported under the identifier call m names returns for
\* the arguments of m
OriginalResult(m) ==
  Resolved(Val(Num(issued[m].args, 1) + heap[origin[issued[m].functionId]].p))

\* C4: a function passed as an argument arrives as a stub, and every call the
\* peer makes on the stub invokes the original function on the exporting side
\* and yields its result: a call made through a stub completes with what the
\* original function returns, and 'callOne' with what its argument returns for 1.
C4CallbackRoundTrip ==
  \A m \in DOMAIN settled :
    /\ issued[m].functionId \in DOMAIN origin => settled[m] = OriginalResult(m)
    /\ issued[m].functionId = "callOne" => settled[m] = CallOneResult(m)

\* c holds the uncollected stub o for the identifier id
LiveStub(c, id, o) ==
  /\ heap[o].kind = "stub" /\ heap[o].alive
  /\ heap[o].home = c /\ heap[o].fid = id

\* C8: importing a function descriptor with one identifier twice on one
\* controller, the stub the first import returned not collected in between,
\* returns the same stub both times, and objectMap holds one entry for the
\* identifier, which refers to it: the uncollected stubs of a controller for
\* one identifier are one object, the one objectMap refers to.
C8StubIdentity ==
  \A c \in Ctl : \A o1 \in 1..Len(heap) : \A o2 \in 1..Len(heap) :
    LiveStub(c, heap[o1].fid, o1) /\ LiveStub(c, heap[o1].fid, o2) => o1 = o2

\* the step removes the registration a handle stands for
Unregistered(h) ==
  /\ h.functionId \in DOMAIN functionRegistry[h.c]
  /\ functionRegistry[h.c][h.functionId] = h.f
  /\ h.functionId \notin DOMAIN functionRegistry'[h.c]

\* C10: a function registered through register stays in functionRegistry, so
\* is never finalized, until the handle of its registration or the controller
\* is released: no message received, a purge naming its identifier included,
\* and no finalization removes it earlier.
C10RegisteredUntilRelease ==
  [][\A h \in handles : Unregistered(h) => ReleaseHandle(h) \/ Release(h.c)]_vars

AnonymousIds == DOMAIN origin

\* the step hands message msg to insertMessage of controller c
Received(c, msg) == msg \in net[c] /\ msg \notin net'[c]

\* the error that answers an invoke message naming a function not found
NotFoundAnswer(msg) ==
  ErrorMessage(msg.messageId, NewError(NotFoundMessage(msg.functionId)))

\* C7: when the finalization of the stub of an anonymous callback runs, its
\* identifier is removed from that controller's objectMap and a purge for it is
\* sent to the peer; the peer, on the purge, drops its functionRegistry and
\* objectMap entries for the identifier; an invoke message naming the
\* identifier that is inserted while objectMap has no entry for it executes
\* nothing and is answered with the error 'Function ... is not found'.
C7AnonymousPurge ==
  [][\A c \in Ctl :
       /\ \A cell \in fr[c] :
            Finalize(c, cell) /\ cell.held \in AnonymousIds =>
              /\ cell.held \notin DOMAIN objectMap'[c]
              /\ \E msg \in net'[Peer(c)] \ net[Peer(c)] :
                   msg.kind = "purge" /\ msg.functionId = cell.held
       /\ \A msg \in net[c] :
            Received(c, msg) /\ msg.functionId \in AnonymousIds =>
              /\ msg.kind = "purge" =>
                   /\ msg.functionId \notin DOMAIN functionRegistry'[c]
                   /\ msg.functionId \notin DOMAIN objectMap'[c]
              /\ msg.kind = "invoke" /\ msg.functionId \notin DOMAIN objectMap[c] =>
                   /\ NotFoundAnswer(msg) \in net'[Peer(c)]
                   /\ execs' = execs /\ tasks' = tasks]_vars

\* the stub of g was finalized, its purge has made A drop g, and an invoke
\* naming g's identifier, inserted into A afterwards, was answered 'not found'
C7Witness ==
  \E id \in AnonymousIds :
    /\ id \notin DOMAIN functionRegistry["A"]
    /\ id \notin DOMAIN objectMap["A"] \cup DOMAIN objectMap["B"]
    /\ NotFoundAnswer(InvokeMessage("fake", id, << >>, FALSE)) \in net["B"]

(***************************************************************************)
(* Claims about streaming.                                                 *)
(***************************************************************************)
\* the generator function the iterate call of g runs on the peer
GeneratorOf(g) == heap[functionRegistry["B"][issued[g.call].functionId]]

\* the elements the generator function h yields, in the order it yields them
Yielded(h) == [i \in 1..h.p |-> Val(i)]

IsPrefix(a, b) == Len(a) <= Len(b) /\ \A i \in 1..Len(a) : a[i] = b[i]

\* C5: the consumer of iterate receives the elements the remote generator
\* yields, in the order it yields them, none lost, none twice; the stream ends
\* when the generator returns; when the generator throws, the consumer first
\* receives the elements yielded before the failure and then fails with that
\* error.
C5StreamingOrder ==
  \A o \in DOMAIN gens :
    LET g == gens[o]
        h == GeneratorOf(g)
    IN  /\ IsPrefix(g.got \o g.queue, Yielded(h))
        /\ g.state # "open" => g.got \o g.queue = Yielded(h)
        /\ g.state = "done" => h.body = "gen"
        /\ g.state = "failed" =>
             h.body = "genfail" /\ g.error = Err("Error", "Generator error")
        /\ g.end # "" => g.end = g.state /\ g.got = Yielded(h)
        /\ Quiescent => g.state # "open"

\* one consumer has received every element of 'countUp' and seen the end, and
\* another the elements of 'errorGenerator' and then its error
C5Witness ==
  \E o1 \in DOMAIN gens : \E o2 \in DOMAIN gens :
    /\ gens[o1].end = "done" /\ Len(gens[o1].got) = MaxItems
    /\ gens[o2].end = "failed" /\ Len(gens[o2].got) = MaxItems - 1

(***************************************************************************)
(* Claims about cancellation.                                              *)
(***************************************************************************)
\* the abort function controller c holds under identifier id
AbortFunctionOf(c, id) ==
  {a \in 1..Len(heap) :
     heap[a].kind = "abortfn" /\ heap[a].home = c /\ heap[a].srpcId = id}

\* C6: a cancellation token passed in the arguments of an invoke makes the
\* callee register an abort function under the identifier of the caller's
\* token, and when the caller's token fires after it was passed, the callee's
\* token reports cancelled once every message has been delivered.
C6CancellationPropagation ==
  /\ \A m \in DOMAIN execs : \A i \in 1..Len(execs[m]) :
       issued[m].functionId = "work" =>
         \E a \in AbortFunctionOf("B", heap[2].srpcId) :
           /\ execs[m][i] = << Obj(heap[a].sig) >>
           /\ functionRegistry["B"][heap[2].srpcId] = a
  /\ \A m \in DOMAIN issued :
       issued[m].owner = "signal" /\ Quiescent =>
         \E a \in AbortFunctionOf(Peer(issued[m].c), issued[m].functionId) :
           heap[heap[a].sig].aborted

(***************************************************************************)
(* SpecHandle: the full-duplex scenario where user code also releases the  *)
(* handles register returned, registers the functions again, and drops     *)
(* its references to them (README, "Register functions").                  *)
(***************************************************************************)
MaxHandleCalls == 2

\* user code calls controller c's register
Register(c, functionId, f) ==
  /\ f \in 1..Len(heap)
  /\ heap[f].root
  /\ Commit(register(World, c, functionId, f))
  /\ UNCHANGED nUser
  /\ Env

NextHandle ==
  \/ \E c \in Ctl, args \in DuplexArgs :
       Calls < MaxHandleCalls /\ UserInvoke(c, "add", args)
  \/ \E c \in Ctl : \E message \in net[c] : Deliver(c, message)
  \/ \E tid \in DOMAIN tasks : StepTask(tid)
  \/ \E h \in handles : ReleaseHandle(h)
  \/ \E c \in Ctl : Register(c, "add", (IF c = "A" THEN 1 ELSE 2))
  \/ \E o \in 1..Len(heap) : Drop(o)
  \/ \E o \in 1..Len(heap) : Collect(o)

SpecHandle == Init /\ [][NextHandle]_vars

\* the handle of functionId on c has been released and the identifier has not
\* been registered again
HandleReleased(c, functionId) ==
  /\ \E h \in handles : h.c = c /\ h.functionId = functionId
  /\ functionId \notin DOMAIN functionRegistry[c]

\* C11: releasing the handle register returned clears the marker of the
\* function, so that registering the same function again does not throw; and an
\* invoke message naming the identifier that is inserted after the release
\* executes nothing and is answered with the error 'Function ... is not found'.
C11HandleRelease ==
  [][/\ \A h \in handles : ReleaseHandle(h) => heap'[h.f].srpcId = ""
     /\ \A c \in Ctl :
          Register(c, "add", (IF c = "A" THEN 1 ELSE 2)) /\ HandleReleased(c, "add") =>
            thrown' = "" /\ "add" \in DOMAIN functionRegistry'[c]
     /\ \A c \in Ctl : \A msg \in net[c] :
          Received(c, msg) /\ msg.kind = "invoke" /\ HandleReleased(c, msg.functionId) =>
            /\ NotFoundAnswer(msg) \in net'[Peer(c)]
            /\ execs' = execs /\ tasks' = tasks]_vars

\* the invocations of c that wait for their response with signal s attached
AwaitingWith(c, s) ==
  {m \in DOMAIN invocations[c] : invocations[c][m].signal = s /\ m \notin DOMAIN settled}

\* C12: when the AbortSignal found in the arguments of an invoke fires while
\* the invoke waits for its response, the invoke rejects with the abort error
\* and its entry is removed from invocations.
C12LocalCancellation ==
  [][\A s \in 1..Len(heap) : Abort(s) =>
       \A c \in Ctl : \A m \in AwaitingWith(c, s) :
         /\ m \in DOMAIN settled'
         /\ settled'[m] = Rejected(Err("AbortError", "aborted"))
         /\ m \notin DOMAIN invocations'[c]]_vars

(***************************************************************************)
(* Send callbacks that return a promise (node/tests/                       *)
(* waitable-message.test.ts, README "Create and setup controller pair").   *)
(***************************************************************************)
\* what the promises the send callbacks returned can settle with: nothing
\* at all (an async callback that returns nothing), or the answer of an
\* insertMessageWaitable
Answers == {NoMessage} \cup {replies[k].output : k \in DOMAIN replies}

\* the promise the send callback returned for the invoke m settles with
\* response; forged says that the response is of the callback's own making
Respond(m, response, forged) ==
  /\ m \in DOMAIN issued
  /\ m \notin DOMAIN settled
  /\ issued[m].owner # "signal"
  /\ CASE issued[m].send = "async" -> ~forged /\ response = NoMessage
       [] issued[m].send = "waitable" /\ forged -> nFab < MaxFab
       [] issued[m].send = "waitable" /\ ~forged ->
            /\ << Peer(issued[m].c), m >> \in DOMAIN replies
            /\ response = replies[<< Peer(issued[m].c), m >>].output
            /\ response.kind # "pending"
       [] OTHER -> FALSE
  /\ Commit(resumeInvoke(World, issued[m].c, m, response))
  /\ nFab' = IF forged THEN nFab + 1 ELSE nFab
  /\ UNCHANGED << nUser, fifo, send, produceStackTrace, dotnet >>

(***************************************************************************)
(* SpecEquiv: a test program, drawn at the start, is run on a pair wired   *)
(* through insertMessage and on a pair wired through                       *)
(* insertMessageWaitable.  The program is a sequence of calls that user    *)
(* code makes one after the other; between two calls no handler runs       *)
(* (run to completion), at an "await" the program waits until nothing is   *)
(* left to do.                                                             *)
(***************************************************************************)
MaxScript == 3

\* the programs: invokes of 'add' and of the unregistered 'nope' from either
\* side, the release of A, and awaits
Scripts ==
  UNION {[1..n -> {[op |-> "invoke", c |-> c, functionId |-> f] :
                      c \in Ctl, f \in {"add", "nope"}}
                    \cup {[op |-> "release", c |-> "A", functionId |-> ""],
                          [op |-> "await", c |-> "A", functionId |-> ""]}] :
         n \in 1..MaxScript}

\* nothing is left to do in w
Idle(w) ==
  /\ \A c \in Ctl : w.net[c] = {} /\ w.wnet[c] = {}
  /\ w.tasks = EmptyMap
  /\ \A m \in DOMAIN w.issued :
       w.issued[m].send = "insert" \/ m \in DOMAIN w.settled

\* one call of the program
call(w, x) ==
  CASE x.op = "invoke" -> invoke(w, x.c, x.functionId, << Val(1), Val(2) >>, "user")
    [] x.op = "release" -> release(w, x.c)
    [] OTHER -> w

\* user code makes the next call of the program
Play ==
  /\ Calls < Len(script)
  /\ script[Calls + 1].op = "await" => Idle(World)
  /\ Commit(call(World, script[Calls + 1]))
  /\ nUser' = [nUser EXCEPT ![script[Calls + 1].c] = @ + 1]
  /\ Env

\* the program waits: handlers may run
Awaiting == IF Calls < Len(script) THEN script[Calls + 1].op = "await" ELSE TRUE

NextEquiv ==
  \/ Play
  \/ Awaiting /\ \E c \in Ctl : \E message \in net[c] : Deliver(c, message)
  \/ Awaiting /\ \E c \in Ctl : \E message \in wnet[c] : DeliverWaitable(c, message)
  \/ Awaiting /\ \E tid \in DOMAIN tasks : StepTask(tid)
  \/ Awaiting /\ \E m \in DOMAIN issued : \E response \in Answers :
                   Respond(m, response, FALSE)

SpecEquiv ==
  /\ \E mode \in {"insert", "waitable"}, s \in Scripts :
       InitFrom([DuplexWorld EXCEPT !.send = [c \in Ctl |-> mode], !.script = s])
  /\ [][NextEquiv]_vars

\* a pair wired through insertMessage runs until nothing is left to do: the
\* transport hands a message under way to insertMessage, or a task that can
\* move on does
RECURSIVE drain(_)
drain(w) ==
  LET underWay == UNION {{<< c, message >> : message \in w.net[c]} : c \in Ctl}
      ready == {tid \in DOMAIN w.tasks :
                  w.tasks[tid].pc = "await" => w.tasks[tid].wait \in DOMAIN w.settled}
      d == CHOOSE x \in underWay : TRUE
  IN  IF underWay # {}
      THEN drain(insertMessage([w EXCEPT !.net[d[1]] = @ \ {d[2]}], d[1], d[2]))
      ELSE IF ready # {} THEN drain(stepTask(w, CHOOSE tid \in ready : TRUE))
      ELSE w

\* the program `calls` run on a pair wired through insertMessage
RECURSIVE play(_, _)
play(w, calls) ==
  IF calls = << >> THEN drain(w)
  ELSE IF Head(calls).op = "await" THEN play(drain(w), Tail(calls))
  ELSE play(call(w, Head(calls)), Tail(calls))

\* what the callers of invoke got in w
Outcomes(w) ==
  [m \in {x \in DOMAIN w.issued : w.issued[x].owner = "user"} |->
     IF m \in DOMAIN w.settled THEN w.settled[m] ELSE Resolved(Str("pending"))]

\* what a run leaves: the outcomes and the three tables of each controller
Left(w) ==
  [outcomes |-> Outcomes(w), functionRegistry |-> w.functionRegistry,
   objectMap |-> w.objectMap, invocations |-> w.invocations]

\* C13: a program of registrations and calls, run to its end on a pair wired
\* through insertMessageWaitable, gives the callers the same results and errors
\* and leaves functionRegistry, objectMap and invocations in the same state as
\* the same program run on a pair wired through insertMessage.
C13WaitableEquivalence ==
  Calls = Len(script) /\ Idle(World) => Left(World) = Left(play(DuplexWorld, script))

(***************************************************************************)
(* SpecSend: the full-duplex scenario with each controller's send callback *)
(* being one of the three kinds the embedder can write: one that hands the *)
(* message to the transport and returns nothing, an async one that does    *)
(* the same and returns a promise of nothing (README.md), and one that     *)
(* returns the promise of the peer's insertMessageWaitable                 *)
(* (node/tests/waitable-message.test.ts).  User code also makes one-way    *)
(* invokes, and a send callback may answer with a message of its own.      *)
(***************************************************************************)
MaxSendCalls == 2

\* user code calls controller c's invokeOneWay
UserInvokeOneWay(c, functionId, args) ==
  /\ Commit(invokeOneWay(World, c, functionId, args))
  /\ nUser' = [nUser EXCEPT ![c] = @ + 1]
  /\ Env

\* the messages a send callback may answer the invoke m with on its own
OwnResponses(m) ==
  {ResultMessage(id, Val(99)) : id \in {m, "bogus"}}
    \cup {ErrorMessage(id, Err("RangeError", "forged")) : id \in {m, "bogus"}}
    \cup {NoneMessage(id) : id \in {m, "bogus"}}
    \cup {PurgeMessage(m, "add"), InvokeMessage(m, "add", << >>, FALSE)}

NextSend ==
  \/ \E c \in Ctl, f \in {"add", "nope"}, args \in DuplexArgs :
       Calls < MaxSendCalls /\ UserInvoke(c, f, args)
  \/ \E c \in Ctl, f \in {"add", "nope"}, args \in DuplexArgs :
       Calls < MaxSendCalls /\ UserInvokeOneWay(c, f, args)
  \/ \E c \in Ctl : \E message \in net[c] : Deliver(c, message)
  \/ \E c \in Ctl : \E message \in wnet[c] : DeliverWaitable(c, message)
  \/ \E tid \in DOMAIN tasks : StepTask(tid)
  \/ \E m \in DOMAIN issued : \E response \in Answers : Respond(m, response, FALSE)
  \/ \E m \in DOMAIN issued : \E response \in OwnResponses(m) : Respond(m, response, TRUE)

SpecSend ==
  /\ \E a \in {"insert", "async", "waitable"} : \E b \in {"insert", "async", "waitable"} :
       InitFrom([DuplexWorld EXCEPT !.send = [c \in Ctl |-> IF c = "A" THEN a ELSE b]])
  /\ [][NextSend]_vars

(***************************************************************************)
(* Claims about the kinds of send callback.                                *)
(***************************************************************************)
\* the invoke m was made through an async send callback that returns nothing,
\* on a controller whose peer's messages come back through insertMessage
AsyncIssued(m) ==
  /\ issued[m].owner = "user"
  /\ issued[m].send = "async"
  /\ send[Peer(issued[m].c)] # "waitable"

\* the response to the invoke m has been inserted: the peer has served the
\* invoke and nothing carrying its messageId is under way any more
Answered(m) ==
  /\ m \notin DOMAIN tasks
  /\ \A c \in Ctl : \A message \in net[c] : message.messageId # m
  /\ AddIssued(m) => m \in DOMAIN execs

\* C14: with a send callback that is asynchronous and completes without
\* returning a message, and the peer's messages fed back through
\* insertMessage, an invoke stays pending until the matching result or error
\* message is inserted and then completes with it.
C14AsyncSend ==
  \A m \in DOMAIN issued :
    AsyncIssued(m) /\ m \in DOMAIN settled =>
      Answered(m) /\ settled[m] = ExpectedOutcome(m)

\* the error message that answers the invoke `message` of a missing function
NotFoundError(message) ==
  ErrorMessage(message.messageId, NewError(NotFoundMessage(message.functionId)))

\* the invoke `message` names a function without live referent in c's objectMap
Missing(c, message) ==
  message.kind = "invoke" /\ Deref(World, c, message.functionId) = 0

\* the messages controller c hands to its send callback in the step
SentBy(c) ==
  (net'[Peer(c)] \ net[Peer(c)]) \cup (wnet'[Peer(c)] \ wnet[Peer(c)])

\* the step gives the caller of m the response: through insertMessage or
\* insertMessageWaitable when the caller's send callback returned nothing, as
\* the answer of its send callback otherwise
Receives(m, response) ==
  \/ /\ issued[m].send = "insert"
     /\ \/ response \in net[issued[m].c] /\ Deliver(issued[m].c, response)
        \/ response \in wnet[issued[m].c] /\ DeliverWaitable(issued[m].c, response)
  \/ /\ issued[m].send = "waitable"
     /\ Respond(m, response, FALSE)

\* C15: an invoke message whose functionId has no live referent in objectMap
\* is answered with exactly one error message carrying the invoke's messageId
\* and the message "Function '<id>' is not found", sent by insertMessage and
\* returned by insertMessageWaitable; no function is executed, and the caller's
\* invoke (made through a send callback that returns nothing or the peer's
\* answer) rejects with the name 'Error' and that message.
C15MissingFunction ==
  [][/\ \A c \in Ctl : \A message \in net[c] :
          Missing(c, message) /\ Deliver(c, message) =>
            /\ SentBy(c) = {NotFoundError(message)}
            /\ execs' = execs /\ tasks' = tasks
     /\ \A c \in Ctl : \A message \in wnet[c] :
          Missing(c, message) /\ DeliverWaitable(c, message) =>
            /\ replies'[<< c, message.messageId >>].output = NotFoundError(message)
            /\ SentBy(c) = {}
            /\ execs' = execs /\ tasks' = tasks
     /\ \A m \in DOMAIN issued :
          /\ issued[m].owner = "user" /\ m \notin DOMAIN settled
          /\ Receives(m, NotFoundError([messageId |-> m,
                                       functionId |-> issued[m].functionId]))
          => /\ m \in DOMAIN settled'
             /\ settled'[m] = Rejected(Err("Error", NotFoundMessage(issued[m].functionId)))
    ]_vars

\* an invoke of the unregistered 'nope' has rejected with the not-found error
\* on a controller whose send callback returns nothing, and another on a
\* controller whose send callback returns the peer's answer
C15Witness ==
  \E m \in DOMAIN settled : \E n \in DOMAIN settled :
    /\ issued[m].send = "insert" /\ issued[n].send = "waitable"
    /\ settled[m] = Rejected(Err("Error", NotFoundMessage("nope")))
    /\ settled[n] = Rejected(Err("Error", NotFoundMessage("nope")))

\* what invoke is to complete with, given the message its send callback
\* answered the invoke m with
Completion(m, response) ==
  CASE response.kind = "result" /\ response.messageId = m -> Resolved(response.payload)
    [] response.kind = "error" /\ response.messageId = m ->
         Rejected(Err(response.payload.name, response.payload.id))
    [] response.kind = "none" /\ response.messageId = m -> Resolved(Undefined)
    [] OTHER -> Rejected(Err("Error", "Unexpected response: " \o response.kind
                                      \o " for messageId: " \o m))

\* C17: when the send callback returns a promise of a message, invoke
\* completes from that message alone: a result with the invoke's messageId
\* resolves with the imported value, an error with that messageId rejects with
\* the reconstructed error, a none with that messageId resolves with
\* undefined, and any other kind or any other messageId rejects with
\* "Unexpected response"; in every one of these cases the invocations entry of
\* the invoke has been removed.
C17WaitableSend ==
  [][\A m \in DOMAIN issued : \A response \in Answers \cup OwnResponses(m) :
       /\ issued[m].send = "waitable"
       /\ Respond(m, response, FALSE) \/ Respond(m, response, TRUE)
       => /\ m \in DOMAIN settled'
          /\ settled'[m] = Completion(m, response)
          /\ m \notin DOMAIN invocations'[issued[m].c]
    ]_vars

\* one invoke has resolved with the result its send callback returned, and
\* another has rejected because its send callback returned a message with
\* another messageId
C17Witness ==
  \E m \in DOMAIN settled : \E n \in DOMAIN settled :
    /\ issued[m].send = "waitable" /\ issued[n].send = "waitable"
    /\ AddIssued(m) /\ settled[m] = ExpectedOutcome(m)
    /\ \E response \in OwnResponses(n) :
         response.messageId # n /\ settled[n] = Completion(n, response)
    /\ \A c \in Ctl : invocations[c] = EmptyMap

(***************************************************************************)
(* SpecFaulty: B serves functions that fail: 'fail' throws an Error,       *)
(* 'failStr' a string, 'failNum' a number and 'failUndef' rejects without  *)
(* a reason (tests/controller.test.ts, 'standard error handling' and       *)
(* 'unnormal error handling').  Each send callback returns nothing or the  *)
(* peer's answer, and from some moment on it may throw                     *)
(* (node/tests/waitable-message.test.ts); the environment may insert an    *)
(* error message that carries no error.                                    *)
(***************************************************************************)
MaxFaultyCalls == 2

\* B has registered 'add' and the failing functions, A 'add'
FaultyWorld ==
  LET w1 == Alloc(Alloc(Alloc(Alloc(DuplexWorld, UserFunction("fail", 0)),
                              UserFunction("failStr", 0)),
                        UserFunction("failNum", 7)),
                  UserFunction("failUndef", 0))
  IN  register(register(register(register(w1, "B", "fail", 3), "B", "failStr", 4),
                        "B", "failNum", 5), "B", "failUndef", 6)

\* the send callback of c throws from now on
Break(c) ==
  /\ send[c] # "throws"
  /\ send' = [send EXCEPT ![c] = "throws"]
  /\ UNCHANGED << heap, objectMap, functionRegistry, fr, invocations, net, tasks,
                  settled, uuid, issued, execs, warns, handles, gens, sent,
                  replies, origin, released, fifo, wnet, failed, thrown, script,
                  nUser, nFab, produceStackTrace, dotnet >>

NextFaulty ==
  \/ \E c \in Ctl, args \in DuplexArgs :
       \E f \in {"add", "fail", "failStr", "failNum", "failUndef"} :
         Calls < MaxFaultyCalls /\ UserInvoke(c, f, args)
  \/ \E c \in Ctl : \E message \in net[c] : Deliver(c, message)
  \/ \E c \in Ctl : \E message \in wnet[c] : DeliverWaitable(c, message)
  \/ \E tid \in DOMAIN tasks : StepTask(tid)
  \/ \E m \in DOMAIN issued : \E response \in Answers : Respond(m, response, FALSE)
  \/ \E c \in Ctl : Break(c)
  \/ \E c \in Ctl : Fabricate(c, ErrorMessage(randomUUID(c, 1), Undefined))

SpecFaulty ==
  /\ \E a \in {"insert", "waitable"} : \E b \in {"insert", "waitable"} :
       InitFrom([FaultyWorld EXCEPT !.send = [c \in Ctl |-> IF c = "A" THEN a ELSE b]])
  /\ [][NextFaulty]_vars

(***************************************************************************)
(* Claims about failures: of the target function, of the send callback.    *)
(***************************************************************************)
\* the task tid serves a non-one-way invoke and its function has failed
Failing(tid) ==
  /\ tid \in DOMAIN tasks
  /\ ~tasks[tid].oneWay
  /\ tasks[tid].pc = "ret"
  /\ ~tasks[tid].out.ok

\* the error message answering tid carries what the function raised: the name
\* and message of an error, the type name and the string form of a string or
\* a number
Describes(response, tid, raised) ==
  /\ response.kind = "error"
  /\ response.messageId = tid
  /\ raised.t = "error" => response.payload = Err(raised.name, raised.id)
  /\ raised.t = "str" => response.payload = Err("String", raised.id)
  /\ raised.t = "val" => response.payload = Err("Number", ToString(raised.n))

\* C16: when a target function fails while serving a non-one-way invoke, the
\* dispatcher answers with one error message of the same messageId and no
\* result message; its name and message are copied from the raised error, or
\* for a value that is no error are the runtime type name and the stringified
\* value; the caller's invoke rejects with a fresh error carrying exactly that
\* name and message.
C16TargetFailure ==
  [][/\ \A tid \in DOMAIN tasks :
          Failing(tid) /\ send[tasks[tid].c] # "throws" /\ StepTask(tid) =>
            IF tasks[tid].waitable
            THEN /\ Describes(replies'[<< tasks[tid].c, tid >>].output, tid,
                              tasks[tid].out.v)
                 /\ SentBy(tasks[tid].c) = {}
            ELSE /\ Cardinality(SentBy(tasks[tid].c)) = 1
                 /\ \A response \in SentBy(tasks[tid].c) :
                      Describes(response, tid, tasks[tid].out.v)
     /\ \A m \in DOMAIN issued : \A c \in Ctl : \A response \in net[c] \cup Answers :
          /\ issued[m].owner = "user" /\ m \in DOMAIN invocations[issued[m].c]
          /\ response.kind = "error" /\ response.messageId = m
          /\ response.payload # Undefined
          /\ Receives(m, response)
          => /\ m \in DOMAIN settled'
             /\ settled'[m] = Rejected(Err(response.payload.name, response.payload.id))
    ]_vars

\* what c's insertMessageWaitable has returned for the message after the step
Returns(c, message) == replies'[<< c, message.messageId >>].output

\* the returned message answers the invoke with a result or an error
AnswersInvoke(response, messageId) ==
  response.kind \in {"result", "error"} /\ response.messageId = messageId

\* C18: the message insertMessageWaitable returns is determined by the kind
\* of its input: for a one-way invoke it is a none message, for any other
\* invoke a result or an error message, always with the invoke's messageId;
\* for result, error, purge and none inputs it is the input message itself,
\* unchanged.  insertMessageWaitable never passes its response to the send
\* callback.
C18WaitableReturn ==
  [][/\ \A c \in Ctl : \A message \in wnet[c] :
          DeliverWaitable(c, message) =>
            /\ Returns(c, message) \notin SentBy(c)
            /\ CASE message.kind = "invoke" /\ message.oneWay ->
                      Returns(c, message) = NoneMessage(message.messageId)
                 [] message.kind = "invoke" /\ ~message.oneWay ->
                      \/ Returns(c, message) = Pending
                      \/ AnswersInvoke(Returns(c, message), message.messageId)
                 [] OTHER -> Returns(c, message) = message
     /\ \A tid \in DOMAIN tasks :
          /\ tasks[tid].waitable /\ ~tasks[tid].oneWay
          /\ StepTask(tid) /\ tid \notin DOMAIN tasks'
          => /\ AnswersInvoke(Returns(tasks[tid].c, [messageId |-> tid]), tid)
             /\ Returns(tasks[tid].c, [messageId |-> tid]) \notin SentBy(tasks[tid].c)
    ]_vars

\* C19: if the send callback fails when invoke hands it the invoke message,
\* the failure is surfaced to the caller of invoke and no entry for that
\* messageId remains in invocations: when the callback throws, invocations is
\* the same as before the call; when the promise it returned rejects, the
\* entry is removed then.
C19SendFailure ==
  [][/\ \A c \in Ctl : \A args \in DuplexArgs :
        \A f \in {"add", "fail", "failStr", "failNum", "failUndef"} :
          send[c] = "throws" /\ UserInvoke(c, f, args) =>
            /\ invocations' = invocations
            /\ nextUUID(World, c) \in DOMAIN settled'
            /\ settled'[nextUUID(World, c)] = Rejected(SendFailure)
     /\ \A m \in DOMAIN issued : \A response \in Answers :
          response.kind = "rejected" /\ Respond(m, response, FALSE) =>
            /\ invocations' = [invocations EXCEPT ![issued[m].c] = MapDelete(@, m)]
            /\ m \in DOMAIN settled'
            /\ settled'[m] = Rejected(response.payload)
    ]_vars

\* an invoke has rejected with the failure of the send callback while an
\* earlier invoke of the same controller is pending
C19Witness ==
  \E m \in DOMAIN settled :
    /\ settled[m] = Rejected(SendFailure)
    /\ invocations[issued[m].c] # EmptyMap
    /\ m \notin DOMAIN invocations[issued[m].c]

\* C20: insertMessage never raises to its caller, for any message kind and
\* any controller state; when the send callback fails while the dispatcher
\* sends a result, an error or a not-found response, the failure is
\* swallowed, the response is not sent again, and functionRegistry, objectMap
\* and invocations are left as they were before the send attempt.
C20SilentInsert ==
  [][/\ \A c \in Ctl : \A message \in net[c] : Deliver(c, message) => thrown' = ""
     /\ \A x \in failed' :
          x.message.kind \in {"result", "error"} =>
            /\ x.message \notin SentBy(x.c)
            /\ x \notin failed =>
                 /\ thrown' = ""
                 /\ functionRegistry'[x.c] = x.functionRegistry
                 /\ objectMap'[x.c] = x.objectMap
                 /\ invocations'[x.c] = x.invocations
    ]_vars

\* the send callback has failed on a result and on a not-found response, and
\* an error message that carries no error has been inserted
C20Witness ==
  /\ \E x \in failed : x.message.kind = "result"
  /\ \E y \in failed :
       y.message.kind = "error" /\ y.message.payload = NewError(NotFoundMessage("fail"))
  /\ nFab > 0
  /\ \A c \in Ctl : net[c] = {}

(***************************************************************************)
(* SpecLife: the callback scenario over the whole life of the              *)
(* registrations (tests/gc.test.ts, README.md 'Register functions'): user  *)
(* code on A invokes 'callOne' with the anonymous g, registers g or 'inc'  *)
(* (again), releases handles, releases one of the controllers and          *)
(* drops its references; the collector and the finalization callbacks run  *)
(* at any moment.                                                          *)
(***************************************************************************)
MaxLifeCalls == 1

NextLife ==
  \/ Calls < MaxLifeCalls /\ heap[2].root /\ UserInvoke("A", "callOne", << Obj(2) >>)
  \/ \E c \in Ctl : \E message \in net[c] : Deliver(c, message)
  \/ \E tid \in DOMAIN tasks : StepTask(tid)
  \/ \E f \in {2, 3} : Register("A", "again", f)
  \/ \E h \in handles : ReleaseHandle(h)
  \/ \E c \in Ctl : released = {} /\ Release(c)
  \/ \E o \in {2, 3} : Drop(o)
  \/ \E o \in 1..Len(heap) : Collect(o)
  \/ \E c \in Ctl : \E cell \in fr[c] : Finalize(c, cell)

SpecLife == InitCallback /\ [][NextLife]_vars

(***************************************************************************)
(* Claims about the life of registrations and of objectMap entries.        *)
(***************************************************************************)
\* C21: register of a function that already carries the marker (already
\* registered, or already exported as a callback) fails with the
\* already-registered error and leaves functionRegistry, objectMap and the
\* marker unchanged.
C21AlreadyRegistered ==
  [][\A f \in {2, 3} :
       heap[f].srpcId # "" /\ Register("A", "again", f) =>
         /\ thrown' = "Function " \o heap[f].srpcId \o " already registered."
         /\ functionRegistry' = functionRegistry
         /\ objectMap' = objectMap
         /\ fr' = fr
         /\ heap' = heap
    ]_vars

\* register has failed for the function g, which carries the identifier it
\* got when it was exported as a callback
C21Witness ==
  /\ heap[2].srpcId \notin {"", "again"}
  /\ thrown = "Function " \o heap[2].srpcId \o " already registered."

\* the message answers nothing at c: a result or error without Deferred, a
\* purge of an identifier functionRegistry does not hold, a none message
IsSpurious(c, message) ==
  \/ message.kind \in {"result", "error"} /\ message.messageId \notin DOMAIN invocations[c]
  \/ message.kind = "purge" /\ message.functionId \notin DOMAIN functionRegistry[c]
  \/ message.kind = "none"

\* C22: spurious messages are discarded without effect: a result or error
\* whose messageId is not in invocations, a purge whose identifier is unknown,
\* and any none message leave functionRegistry, objectMap and invocations
\* unchanged, complete no invocation and cause no message to be sent.
C22SpuriousDiscarded ==
  [][\A c \in Ctl : \A message \in net[c] :
       /\ IsSpurious(c, message)
       /\ Deliver(c, message) \/ DeliverWaitable(c, message)
       => /\ functionRegistry' = functionRegistry
          /\ objectMap' = objectMap
          /\ invocations' = invocations
          /\ settled' = settled
          /\ heap' = heap /\ fr' = fr
          /\ net' = [net EXCEPT ![c] = @ \ {message}]
          /\ wnet' = wnet
    ]_vars

\* a result or error of the environment's making that found no Deferred has
\* been inserted (and logged) while an invocation of the same controller is
\* pending
C22Witness ==
  \E c \in Ctl :
    /\ warns[c] > 0
    /\ invocations[c] # EmptyMap
    /\ nFab > 0
    /\ net[c] = {}

\* the identifiers controller c drew for its one-way invokes
OneWayIds(c) == {randomUUID(c, n) : n \in 1..uuid[c]} \ DOMAIN issued

\* C23: invokeOneWay sends exactly one invoke message with oneWay set and
\* leaves invocations unchanged; whatever message later arrives carrying that
\* messageId (result, error or none) completes nothing and changes no table.
C23OneWay ==
  [][/\ \A c \in Ctl : \A f \in {"add", "nope"} : \A args \in DuplexArgs :
          UserInvokeOneWay(c, f, args) =>
            /\ SentBy(c) = {InvokeMessage(nextUUID(World, c), f, args, TRUE)}
            /\ invocations' = invocations
            /\ settled' = settled
     /\ \A c \in Ctl : \A message \in net[c] \cup wnet[c] :
          /\ message.kind \in {"result", "error", "none"}
          /\ message.messageId \in OneWayIds(c)
          /\ \/ message \in net[c] /\ Deliver(c, message)
             \/ message \in wnet[c] /\ DeliverWaitable(c, message)
          => /\ settled' = settled
             /\ invocations' = invocations
             /\ functionRegistry' = functionRegistry
             /\ objectMap' = objectMap
    ]_vars

\* the error that answers a one-way invoke of the unregistered 'nope' has come
\* back and has been inserted while an invoke of the same controller is pending
C23Witness ==
  \E c \in Ctl : \E m \in OneWayIds(c) :
    /\ warns[c] > 0 \/ << c, m >> \in DOMAIN replies
    /\ invocations[c] # EmptyMap
    /\ \A message \in net[c] \cup wnet[c] : message.messageId # m
    /\ \A message \in net[Peer(c)] \cup wnet[Peer(c)] : message.messageId # m

(***************************************************************************)
(* SpecTokens: several cancellation tokens (tests/abort-signal.test.ts,    *)
(* 'same AbortSignal instance in multiple arguments', 'mixed same and      *)
(* different AbortSignals').  B has registered 'work'; user code on A      *)
(* holds two AbortControllers, passes their signals to 'work' in one or    *)
(* several positions and in several invokes, and fires them at any moment. *)
(***************************************************************************)
MaxTokenCalls == 2

\* 1: 'work' of B; 2, 3: the AbortSignals of A's user code
TokenWorld ==
  LET w1 == Alloc(Alloc(Alloc(EmptyWorld, UserFunction("sig", 7)), UserSignal),
                  UserSignal)
  IN  register(w1, "B", "work", 1)

NextTokens ==
  \/ \E args \in {<< Obj(2), Obj(2) >>, << Obj(2), Obj(3) >>, << Obj(3) >>} :
       /\ Calls < MaxTokenCalls
       /\ \A i \in 1..Len(args) : ~heap[args[i].n].aborted
       /\ UserInvoke("A", "work", args)
  \/ \E s \in {2, 3} : Abort(s)
  \/ \E c \in Ctl : \E message \in net[c] : Deliver(c, message)
  \/ \E tid \in DOMAIN tasks : StepTask(tid)

SpecTokens == InitFrom(TokenWorld) /\ [][NextTokens]_vars

\* the tokens user code passed to 'work' and the tokens 'work' received, as
\* pairs << caller's token, callee's token >>
TokenPairs ==
  UNION {{<< issued[m].args[i].n, execs[m][1][i].n >> : i \in 1..Len(execs[m][1])} :
         m \in {x \in DOMAIN execs : issued[x].functionId = "work"}}

\* C24: when the same caller token is passed in several argument positions or
\* in several invokes, the callee receives one and the same token object for
\* all of them, and two distinct caller tokens are received as two distinct
\* callee tokens, so that firing one caller token cancels only the callee
\* token that corresponds to it.
C24TokenIdentity ==
  /\ \A p \in TokenPairs : \A q \in TokenPairs : p[1] = q[1] <=> p[2] = q[2]
  /\ \A p \in TokenPairs :
       /\ heap[p[2]].kind = "signal"
       /\ heap[p[2]].aborted => heap[p[1]].aborted

\* 'work' has received the first token in three positions of two invokes and
\* the second token in one; the first caller token has fired and the callee's
\* token for it reports cancelled, the other one does not
C24Witness ==
  /\ Cardinality(DOMAIN execs) = 2
  /\ \E p \in TokenPairs : \E q \in TokenPairs :
       /\ p[1] = 2 /\ q[1] = 3
       /\ heap[p[2]].aborted /\ ~heap[q[2]].aborted

(***************************************************************************)
(* Claims about release of the controller and finalization.                *)
(***************************************************************************)
\* C25: release on the controller disarms all finalization watches: after
\* release, the finalization of an object that was in objectMap when release
\* was called (registered function, exported callback, imported stub or
\* exported token) sends no purge message and calls the send callback for
\* nothing else.
C25ReleaseDisarms ==
  [][\A c \in released : \A cell \in fr[c] :
       /\ cell.held \notin DOMAIN objectMap[c]
       /\ Finalize(c, cell)
       => /\ net' = net /\ wnet' = wnet
          /\ sent' = sent
    ]_vars

(***************************************************************************)
(* Claims about the table of pending invocations.                          *)
(***************************************************************************)
\* the invoke m of controller c has been sent and no result or error that
\* answers it has reached c yet: the promise its send callback returned for it
\* has not settled with a message; or, with a send callback that hands no
\* message back, its invoke message is under way or is being served, or its
\* answer is under way to insertMessage
Unanswered(c, m) ==
  IF issued[m].send = "waitable" THEN m \notin DOMAIN settled
  ELSE \/ \E message \in net[Peer(c)] \cup wnet[Peer(c)] :
            message.kind = "invoke" /\ message.messageId = m
       \/ m \in DOMAIN tasks
       \/ \E message \in net[c] \cup wnet[c] :
            message.kind \in {"result", "error"} /\ message.messageId = m

\* C26: in every reachable state, invocations holds exactly one entry for each
\* outgoing invoke that is not one-way, has been sent and has not yet been
\* answered by a matching result or error, and no other entries, until the
\* controller is released; every such invoke has a messageId of its own.
C26PendingTable ==
  \A c \in Ctl \ released :
    /\ DOMAIN invocations[c] =
         {m \in DOMAIN issued :
            issued[m].c = c /\ issued[m].owner # "signal" /\ Unanswered(c, m)}
    /\ Cardinality({m \in DOMAIN issued : issued[m].c = c /\ issued[m].owner = "user"})
         + Cardinality({m \in DOMAIN issued : issued[m].c = c /\ issued[m].owner = "signal"})
         + Cardinality(OneWayIds(c)) >= nUser[c]

(***************************************************************************)
(* SpecSync: synchronous wiring (tests/controller.test.ts, 'function is    *)
(* not found').  Both sides have registered 'add'; each send callback      *)
(* either calls the peer's insertMessage itself before it returns, or      *)
(* hands the message to a transport that does so later.                    *)
(***************************************************************************)
NextSync ==
  \/ \E c \in Ctl, f \in {"add", "nope"}, args \in DuplexArgs : UserInvoke(c, f, args)
  \/ \E c \in Ctl : \E message \in net[c] : Deliver(c, message)
  \/ \E tid \in DOMAIN tasks : StepTask(tid)

SpecSync ==
  /\ \E a \in {"sync", "insert"} : \E b \in {"sync", "insert"} :
       InitFrom([DuplexWorld EXCEPT !.send = [c \in Ctl |-> IF c = "A" THEN a ELSE b]])
  /\ [][NextSync]_vars

\* C27: the invocations entry is inserted before the send callback is called,
\* so that a reply the peer delivers through insertMessage while the send
\* callback is still running (synchronous wiring) finds the pending entry and
\* completes the invoke; such a reply is never treated as spurious.
C27InsertBeforeSend ==
  [][/\ \A c \in Ctl : \A args \in DuplexArgs :
          /\ send[c] = "sync" /\ send[Peer(c)] = "sync"
          /\ UserInvoke(c, "nope", args)
          => /\ nextUUID(World, c) \in DOMAIN settled'
             /\ settled'[nextUUID(World, c)] = Rejected(Err("Error", NotFoundMessage("nope")))
             /\ nextUUID(World, c) \notin DOMAIN invocations'[c]
             /\ invocations'[c] = invocations[c]
     /\ warns' = warns
    ]_vars

\* with both send callbacks synchronous, an invoke of the unregistered 'nope'
\* has been rejected by the reply that came in during its send, while an
\* invoke of 'add' of the same controller is pending
C27Witness ==
  \E m \in DOMAIN settled :
    /\ send["A"] = "sync" /\ send["B"] = "sync"
    /\ settled[m] = Rejected(Err("Error", NotFoundMessage("nope")))
    /\ invocations[issued[m].c] # EmptyMap

(***************************************************************************)
(* Claims about the agreement of the two object tables.                    *)
(***************************************************************************)
\* C28: coherent agreement: in every interleaving of message delivery,
\* collection and finalization callbacks, whenever a controller holds a live
\* stub for an identifier, the exporting controller still holds the identifier
\* strongly in functionRegistry and in objectMap (unless the exporter released
\* it itself): the exporter's entry is dropped only after the importer's last
\* stub for the identifier was finalized.
C28CoherentAgreement ==
  \A c \in Ctl : \A o \in 1..Len(heap) :
    LiveStub(c, heap[o].fid, o) /\ Peer(c) \notin released =>
      /\ heap[o].fid \in DOMAIN functionRegistry[Peer(c)]
      /\ heap[o].fid \in DOMAIN objectMap[Peer(c)]

(***************************************************************************)
(* Claims about purge messages.                                            *)
(***************************************************************************)
\* the function o has been exported before, under an identifier of its own or
\* as a registered function
ExportedBefore(o) ==
  \/ \E id \in DOMAIN origin : origin[id] = o
  \/ \E h \in handles : h.f = o

\* C29: a purge message naming an identifier held in functionRegistry removes
\* that identifier from functionRegistry and from objectMap, disarms its
\* finalization watch and clears the marker of the function, so that a later
\* export of the same function is given a fresh identifier; the entries of
\* every other identifier and all of invocations are unchanged.
C29PurgeEffect ==
  [][/\ \A c \in Ctl : \A message \in net[c] :
          /\ message.kind = "purge"
          /\ message.functionId \in DOMAIN functionRegistry[c]
          /\ Deliver(c, message)
          => /\ functionRegistry'[c] = MapDelete(functionRegistry[c], message.functionId)
             /\ objectMap'[c] = MapDelete(objectMap[c], message.functionId)
             /\ fr'[c] = {cell \in fr[c] :
                            cell.target # functionRegistry[c][message.functionId]}
             /\ heap'[functionRegistry[c][message.functionId]].srpcId = ""
             /\ functionRegistry'[Peer(c)] = functionRegistry[Peer(c)]
             /\ objectMap'[Peer(c)] = objectMap[Peer(c)]
             /\ fr'[Peer(c)] = fr[Peer(c)]
             /\ invocations' = invocations
     /\ \A o \in {2, 3} :
          /\ heap[o].srpcId = "" /\ ExportedBefore(o)
          /\ UserInvoke("A", "callOne", << Obj(o) >>)
          => /\ heap'[o].srpcId # ""
             /\ heap'[o].srpcId \notin DOMAIN origin \cup {h.functionId : h \in handles}
             /\ heap'[o].srpcId \notin
                  DOMAIN objectMap["A"] \cup DOMAIN objectMap["B"]
    ]_vars

\* A has dropped g on a purge and has exported g again under another
\* identifier, which B holds a stub for, while the entry of 'inc' is in place
C29Witness ==
  \E id \in DOMAIN origin :
    /\ origin[id] = 2
    /\ id \notin DOMAIN functionRegistry["A"]
    /\ heap[2].srpcId \notin {"", id}
    /\ heap[2].srpcId \in DOMAIN objectMap["B"]
    /\ "inc" \in DOMAIN functionRegistry["A"]

\* objectMap of c holds id although the referent has been collected
DeadEntry(c, id) ==
  id \in DOMAIN objectMap[c] /\ ~heap[objectMap[c][id]].alive

\* C30: every objectMap entry is eventually removed once its referent has been
\* collected: no identifier whose referent is dead stays in objectMap for ever,
\* whether the referent was a registered function (its handle released or
\* not), an exported callback, an imported stub, an abort adapter or an
\* exported token.  Only the finalization callback removes the entry of a
\* dead referent, so: for every such entry the FinalizationRegistry still
\* holds the cell whose callback will remove it.
C30DeadEntriesRemoved ==
  \A c \in Ctl : \A id \in DOMAIN objectMap[c] :
    DeadEntry(c, id) =>
      \E cell \in fr[c] : cell.held = id /\ cell.target = objectMap[c][id]

(***************************************************************************)
(* Claims about the back-pressure of streams.                              *)
(***************************************************************************)
\* the invokes the generator wrapper run for the iterate call `iter` has made
\* on the yield callback
ItemInvokes(iter) == {m \in DOMAIN issued : issued[m].owner = iter}

\* the response of the invoke `iter` has been sent
Responded(iter) ==
  \/ iter \in DOMAIN settled
  \/ \E message \in net[issued[iter].c] :
       message.kind \in {"result", "error"} /\ message.messageId = iter

\* C31: streaming back-pressure: for one stream the generator side has at
\* most one invocation of the yield callback outstanding at any time; the
\* invoke carrying item N+1 is not sent before the result of the invoke
\* carrying item N was received, and the final result or error of the stream's
\* invoke is sent only after the last item's callback completed.
C31BackPressure ==
  \A o \in DOMAIN gens :
    /\ Cardinality({m \in ItemInvokes(gens[o].call) : m \notin DOMAIN settled}) <= 1
    /\ \A m \in ItemInvokes(gens[o].call) : \A n \in ItemInvokes(gens[o].call) :
         issued[m].args[1].n < issued[n].args[1].n =>
           m \in DOMAIN settled /\ m \notin DOMAIN invocations[issued[m].c]
    /\ Responded(gens[o].call) =>
         /\ ItemInvokes(gens[o].call) \subseteq DOMAIN settled
         /\ Cardinality(ItemInvokes(gens[o].call)) = GeneratorOf(gens[o]).p

\* two streams run together: one has its last item's callback outstanding
\* after the earlier ones completed, the other has sent its final response
C31Witness ==
  \E o1 \in DOMAIN gens : \E o2 \in DOMAIN gens :
    /\ Cardinality(ItemInvokes(gens[o1].call)) = MaxItems
    /\ \E m \in ItemInvokes(gens[o1].call) : m \notin DOMAIN settled
    /\ Responded(gens[o2].call)
    /\ ItemInvokes(gens[o2].call) # {}

(***************************************************************************)
(* SpecStack: the produceStackTrace option (tests/controller.test.ts,      *)
(* 'standard error handling', 'function is not found').  B has registered  *)
(* 'fail', which throws an Error; each controller is created with the      *)
(* option on or off; the stack of the thrown Error is any of Stacks; user  *)
(* code on A invokes 'fail' and the unregistered 'nope'.                   *)
(***************************************************************************)
MaxStackCalls == 2

\* the stacks the Error thrown by 'fail' can have
Stacks == {2, 3}

\* 1: 'fail' of B, which throws an Error with the given stack
StackWorld(stack) ==
  register(Alloc(EmptyWorld, UserFunction("fail", stack)), "B", "fail", 1)

NextStack ==
  \/ \E f \in {"fail", "nope"} :
       Calls < MaxStackCalls /\ UserInvoke("A", f, << >>)
  \/ \E c \in Ctl : \E message \in net[c] : Deliver(c, message)
  \/ \E c \in Ctl : \E message \in wnet[c] : DeliverWaitable(c, message)
  \/ \E tid \in DOMAIN tasks : StepTask(tid)
  \/ \E m \in DOMAIN issued : \E response \in Answers : Respond(m, response, FALSE)

SpecStack ==
  /\ \E stack \in Stacks : \E a \in BOOLEAN : \E b \in BOOLEAN :
       \E wiring \in {"insert", "waitable"} :
         InitFrom([StackWorld(stack) EXCEPT
                     !.produceStackTrace = [c \in Ctl |-> IF c = "A" THEN a ELSE b],
                     !.send = [c \in Ctl |-> IF c = "A" THEN wiring ELSE "insert"]])
  /\ [][NextStack]_vars

\* the error messages controller c has produced and that are under way or
\* have been returned by its insertMessageWaitable
ErrorsOf(c) ==
  {message \in net[Peer(c)] : message.kind = "error"}
    \cup {replies[k].output : k \in {x \in DOMAIN replies :
                                       x[1] = c /\ replies[x].output.kind = "error"}}

\* C32: stack traces cross the boundary only when enabled: an error message
\* produced by a controller whose produceStackTrace is false never carries a
\* stack (for a failing procedure and for the not-found response alike), so
\* that it is the same whatever the stack of the raised error; and a caller
\* whose produceStackTrace is false never appends a carried stack to the error
\* it raises.
C32StackOnlyWhenEnabled ==
  /\ \A c \in Ctl : \A message \in ErrorsOf(c) :
       ~produceStackTrace[c] => message.payload.n = 0
  /\ \A m \in DOMAIN settled :
       ~produceStackTrace[issued[m].c] /\ ~settled[m].ok => settled[m].v.n = 0

(***************************************************************************)
(* SpecShared: one procedure object used with both controllers.  Both      *)
(* controllers have a 'callOne'; user code registers the function f on     *)
(* either controller, passes it as a callback to the peer's 'callOne'      *)
(* through either controller, releases f's handles and releases A; the     *)
(* transport delivers in order.                                            *)
(***************************************************************************)
MaxSharedCalls == 2

\* 1: 'callOne' of B, 2: 'callOne' of A, 3: the function f (x => x + 1)
SharedWorld ==
  LET w1 == Alloc(EmptyWorld, UserFunction("callArg", 1))
      w2 == Alloc(w1, UserFunction("callArg", 1))
      w3 == Alloc(w2, UserFunction("plus", 1))
  IN  register(register(w3, "B", "callOne", 1), "A", "callOne", 2)

NextShared ==
  \/ \E c \in Ctl : Calls < MaxSharedCalls /\ UserInvoke(c, "callOne", << Obj(3) >>)
  \/ \E c \in Ctl : \E message \in net[c] : Deliver(c, message)
  \/ \E tid \in DOMAIN tasks : StepTask(tid)
  \/ \E c \in Ctl : Register(c, "f", 3)
  \/ \E h \in handles : h.f = 3 /\ ReleaseHandle(h)
  \/ Release("A")

SpecShared == InitFrom([SharedWorld EXCEPT !.fifo = TRUE]) /\ [][NextShared]_vars

\* controller c has itself registered or exported the function f
UsedBy(c, f) ==
  \/ \E h \in handles : h.c = c /\ h.f = f
  \/ \E id \in DOMAIN origin : origin[id] = f /\ id \in SeqRange(UuidTable[c])

\* C33: controllers are independent: a procedure that is registered on, was
\* exported by, or was registered on a since-released controller can be
\* registered on the other controller, which has not used it itself, and be
\* exported through it, where it gets an entry in that controller's own
\* objectMap (and is invocable by its peer).
C33Independent ==
  [][\A c \in Ctl :
       ~UsedBy(c, 3) /\ c \notin released =>
         /\ Register(c, "f", 3) =>
              /\ thrown' = ""
              /\ "f" \in DOMAIN functionRegistry'[c]
              /\ "f" \in DOMAIN objectMap'[c] /\ objectMap'[c]["f"] = 3
         /\ UserInvoke(c, "callOne", << Obj(3) >>) =>
              \E id \in DOMAIN objectMap'[c] :
                /\ objectMap'[c][id] = 3
                /\ id \in DOMAIN functionRegistry'[c]]_vars

(***************************************************************************)
(* SpecOneWay: one-way invokes of existing functions.  B has registered    *)
(* 'add', the async 'fail' (its promise rejects), 'throw' (which is not    *)
(* async and throws) and 'callOne', which awaits its argument called with  *)
(* 1; user code on A invokes them one-way, 'callOne' with the callback g   *)
(* that fails, so that 'callOne' fails after it was suspended.             *)
(***************************************************************************)
MaxOneWayCalls == 2

\* 1: 'add', 2: 'fail', 3: 'throw', 4: 'callOne' of B; 5: the callback g of
\* A's user code
OneWayWorld ==
  LET w1 == Alloc(EmptyWorld, UserFunction("add", 0))
      w2 == Alloc(w1, UserFunction("fail", 0))
      w3 == Alloc(w2, UserFunction("throw", 0))
      w4 == Alloc(w3, UserFunction("callArg", 1))
      w5 == Alloc(w4, UserFunction("fail", 0))
  IN  register(register(register(register(w5, "B", "add", 1), "B", "fail", 2),
                        "B", "throw", 3), "B", "callOne", 4)

OneWayCalls ==
  {<< "add", << Val(1), Val(2) >> >>, << "fail", << >> >>, << "throw", << >> >>,
   << "callOne", << Obj(5) >> >>}

NextOneWay ==
  \/ \E entry \in OneWayCalls :
       Calls < MaxOneWayCalls /\ UserInvokeOneWay("A", entry[1], entry[2])
  \/ \E c \in Ctl : \E message \in net[c] : Deliver(c, message)
  \/ \E tid \in DOMAIN tasks : StepTask(tid)

SpecOneWay == InitFrom(OneWayWorld) /\ [][NextOneWay]_vars

\* the one-way invoke m has been handed to the peer's insertMessage
HandedOver(m) == \A c \in Ctl : \A message \in net[c] : message.messageId # m

\* the messageIds of the one-way invokes user code on A has made
OneWayInvokes == OneWayIds("A") \ DOMAIN origin

\* C34: a one-way invoke of an existing function produces no response through
\* the send callback, whether the procedure succeeds, raises synchronously or
\* fails later: insertMessage calls the procedure once and sends neither a
\* result nor an error message for that messageId.
C34OneWaySilent ==
  \A m \in OneWayInvokes :
    /\ \A c \in Ctl : \A message \in net[c] :
         message.messageId = m => message.kind = "invoke" /\ message \in net["B"]
    /\ m \in DOMAIN execs => Len(execs[m]) = 1
    /\ HandedOver(m) => m \in DOMAIN execs

\* the one-way 'callOne' has failed after its callback failed, and the error
\* of the one-way 'throw' has been logged
C34Witness ==
  /\ warns["B"] > 0
  /\ \E m \in OneWayInvokes :
       /\ HandedOver(m) /\ m \notin DOMAIN tasks
       /\ \E k \in DOMAIN settled : issued[k].owner = m /\ ~settled[k].ok

(***************************************************************************)
(* SpecExport: the same objects exported again and again                   *)
(* (tests/abort-signal.test.ts, 'same AbortSignal instance in multiple     *)
(* arguments').  B has registered 'work'; user code on A passes its        *)
(* function f and its AbortSignal s to 'work', in several positions and in *)
(* several invokes, and fires s at any moment.                             *)
(***************************************************************************)
MaxExportCalls == 3

\* 1: 'work' of B; 2: the function f and 3: the AbortSignal s of A's user code
ExportWorld ==
  LET w1 == Alloc(Alloc(Alloc(EmptyWorld, UserFunction("sig", 7)),
                        UserFunction("plus", 1)), UserSignal)
  IN  register(w1, "B", "work", 1)

ExportArgs == {<< Obj(2), Obj(3) >>, << Obj(2), Obj(2) >>, << Obj(3), Obj(3) >>}

NextExport ==
  \/ \E args \in ExportArgs :
       /\ Calls < MaxExportCalls
       /\ ~heap[3].aborted
       /\ UserInvoke("A", "work", args)
  \/ Abort(3)
  \/ \E c \in Ctl : \E message \in net[c] : Deliver(c, message)
  \/ \E tid \in DOMAIN tasks : StepTask(tid)

SpecExport == InitFrom(ExportWorld) /\ [][NextExport]_vars

\* the identifiers under which controller c's table holds object o
KeysOf(table, c, o) == {id \in DOMAIN table[c] : table[c][id] = o}

\* C35: export is idempotent per object: exporting the same function or the
\* same AbortSignal again, in any number of invokes and with no purge in
\* between, emits a descriptor with the same identifier, adds no second entry
\* to functionRegistry or objectMap, and adds the 'abort' listener to a signal
\* only once, so that one firing of a signal sends exactly one one-way invoke
\* with empty args to its identifier.
C35ExportIdempotent ==
  [][/\ \A args \in ExportArgs :
          UserInvoke("A", "work", args) =>
            \A i \in 1..Len(args) :
              LET o == args[i].n
              IN  /\ heap[o].srpcId # "" =>
                       /\ heap'[o].srpcId = heap[o].srpcId
                       /\ KeysOf(objectMap', "A", o) = KeysOf(objectMap, "A", o)
                       /\ KeysOf(functionRegistry', "A", o) = KeysOf(functionRegistry, "A", o)
                       /\ heap'[o].listeners = heap[o].listeners
                  /\ \A message \in SentBy("A") :
                       /\ message.args[i].id = heap'[o].srpcId
                       /\ message.args[i].t = (IF o = 3 THEN "abort" ELSE "function")
                  /\ KeysOf(objectMap', "A", o) = {heap'[o].srpcId}
                  /\ Cardinality({cell \in fr'["A"] : cell.target = o}) = 1
                  /\ o = 3 => Len(heap'[o].listeners) = 1
                  /\ o = 2 => KeysOf(functionRegistry', "A", o) = {heap'[o].srpcId}
     /\ Abort(3) =>
          SentBy("A") = IF heap[3].srpcId = "" THEN {}
                        ELSE {InvokeMessage(nextUUID(World, "A"), heap[3].srpcId,
                                            << >>, TRUE)}
    ]_vars

\* f and s have each been exported in three positions of three invokes, s has
\* fired and its one-way invoke has been inserted on B
C35Witness ==
  /\ Cardinality({m \in DOMAIN issued : issued[m].owner = "user"}) = MaxExportCalls
  /\ \A o \in {2, 3} :
       Cardinality({<< m, i >> \in (DOMAIN issued) \X {1, 2} :
                      /\ issued[m].owner = "user"
                      /\ issued[m].args[i] = Obj(o)}) = 3
  /\ heap[3].aborted
  /\ Cardinality({m \in DOMAIN issued : issued[m].owner = "signal"}) = 1
  /\ \A c \in Ctl : net[c] = {}

(***************************************************************************)
(* SpecRebind: one function identifier, two functions.  User code on A     *)
(* registers f and g under the identifier 'add', in any order and again,   *)
(* keeps the handles and releases them at any moment; user code on B       *)
(* invokes 'add'.                                                          *)
(***************************************************************************)
MaxRebindCalls == 1

\* 1: f (a + b), 2: g (a + b + 10), both of A's user code and registered on
\* nothing yet
RebindWorld == Alloc(Alloc(EmptyWorld, UserFunction("add", 0)), UserFunction("add", 10))

NextRebind ==
  \/ \E f \in {1, 2} : Register("A", "add", f)
  \/ \E h \in handles : ReleaseHandle(h)
  \/ Calls < MaxRebindCalls /\ UserInvoke("B", "add", << Val(1), Val(2) >>)
  \/ \E c \in Ctl : \E message \in net[c] : Deliver(c, message)
  \/ \E tid \in DOMAIN tasks : StepTask(tid)

SpecRebind == InitFrom(RebindWorld) /\ [][NextRebind]_vars

\* C36: a release handle removes only its own registration: if g is
\* registered under a function identifier after f was registered under the same
\* identifier, releasing f's handle (once or repeatedly) leaves g in
\* functionRegistry and g stays the function that incoming invokes for that
\* identifier execute.
C36OwnRegistrationOnly ==
  [][\A h \in handles :
       /\ h.functionId \in DOMAIN functionRegistry[h.c]
       /\ functionRegistry[h.c][h.functionId] # h.f
       /\ ReleaseHandle(h)
       => /\ h.functionId \in DOMAIN functionRegistry'[h.c]
          /\ functionRegistry'[h.c][h.functionId] = functionRegistry[h.c][h.functionId]
          /\ Deref(World, h.c, h.functionId)' = functionRegistry[h.c][h.functionId]]_vars

(***************************************************************************)
(* Claims about the agreement of functionRegistry and objectMap.           *)
(***************************************************************************)
\* every identifier in functionRegistry is in objectMap with the same function
RegistryInObjectMap ==
  \A c \in Ctl : \A id \in DOMAIN functionRegistry[c] :
    id \in DOMAIN objectMap[c] /\ objectMap[c][id] = functionRegistry[c][id]

\* the step removes or replaces the entry of id in the table of c
EntryChanged(table, c, id) ==
  id \notin DOMAIN table'[c] \/ table'[c][id] # table[c][id]

\* the step is a finalization callback, a purge or a release-handle call of c
TableStep(c) ==
  \/ \E cell \in fr[c] : Finalize(c, cell)
  \/ \E message \in net[c] : message.kind = "purge" /\ Deliver(c, message)
  \/ \E h \in handles : h.c = c /\ ReleaseHandle(h)

\* C37: in every reachable state each identifier in functionRegistry is also
\* in objectMap and the objectMap entry refers to the same function as the
\* functionRegistry entry; no finalization callback, purge or release-handle
\* call removes or replaces one of the two entries while leaving the other.
C37TablesAgree ==
  /\ []RegistryInObjectMap
  /\ [][\A c \in Ctl :
          TableStep(c) =>
            \A id \in (DOMAIN functionRegistry[c]) \cap (DOMAIN objectMap[c]) :
              EntryChanged(functionRegistry, c, id) <=> EntryChanged(objectMap, c, id)]_vars

(***************************************************************************)
(* SpecSameId: both sides have registered a function under the same        *)
(* identifier (tests/controller.test.ts registers 'add' on both sides).  A *)
(* has registered 'callOne' and its own 'inc'; user code on B passes B's   *)
(* 'inc', or an anonymous function, to A's 'callOne'.                      *)
(***************************************************************************)
MaxSameIdCalls == 2

\* 1: 'callOne' of A; 2: 'inc' of B, x => x + 5; 3: 'inc' of A, x => x + 1;
\* 4: an anonymous function of B, x => x + 7
SameIdWorld ==
  LET w1 == Alloc(EmptyWorld, UserFunction("callArg", 1))
      w2 == Alloc(w1, UserFunction("plus", 5))
      w3 == Alloc(w2, UserFunction("plus", 1))
      w4 == Alloc(w3, UserFunction("plus", 7))
  IN  register(register(register(w4, "A", "callOne", 1), "B", "inc", 2), "A", "inc", 3)

NextSameId ==
  \/ \E f \in {2, 4} : Calls < MaxSameIdCalls /\ UserInvoke("B", "callOne", << Obj(f) >>)
  \/ \E c \in Ctl : \E message \in net[c] : Deliver(c, message)
  \/ \E tid \in DOMAIN tasks : StepTask(tid)

SpecSameId == InitFrom(SameIdWorld) /\ [][NextSameId]_vars

\* C38: the callable obtained by importing a function descriptor received from
\* the peer always invokes the peer's function with that identifier, also when
\* the importing controller has a function of its own registered under the
\* same identifier; a local registration is never returned in place of a stub
\* for the peer's function.
C38StubForPeer ==
  \A m \in DOMAIN execs :
    issued[m].functionId = "callOne" =>
      LET received == heap[execs[m][1][1].n]
          passed == heap[issued[m].args[1].n]
      IN  /\ received.kind = "stub"
          /\ received.home = "A" /\ received.fid = passed.srpcId
          /\ m \in DOMAIN settled => settled[m] = Resolved(Val(1 + passed.p))

(***************************************************************************)
(* SpecRoundTrip: a function goes to the peer and comes back.  B has       *)
(* registered 'same', which returns its argument; user code on A invokes   *)
(* 'same' with its anonymous function g or with its registered 'inc'; the  *)
(* collector and the finalization callbacks run at any moment; the         *)
(* transport delivers in order or in any order.                            *)
(***************************************************************************)
MaxRoundTripCalls == 2

\* 1: 'same' of B; 2: g of A, x => x + 5; 3: 'inc' of A, x => x + 1
RoundTripWorld ==
  LET w1 == Alloc(EmptyWorld, UserFunction("same", 0))
      w2 == Alloc(w1, UserFunction("plus", 5))
      w3 == Alloc(w2, UserFunction("plus", 1))
  IN  register(register(w3, "B", "same", 1), "A", "inc", 3)

NextRoundTrip ==
  \/ \E f \in {2, 3} :
       Calls < MaxRoundTripCalls /\ UserInvoke("A", "same", << Obj(f) >>)
  \/ \E c \in Ctl : \E message \in net[c] : Deliver(c, message)
  \/ \E tid \in DOMAIN tasks : StepTask(tid)
  \/ \E o \in 1..Len(heap) : Collect(o)
  \/ \E c \in Ctl : \E cell \in fr[c] : Finalize(c, cell)

SpecRoundTrip ==
  /\ \E ordered \in BOOLEAN : InitFrom([RoundTripWorld EXCEPT !.fifo = ordered])
  /\ [][NextRoundTrip]_vars

\* the invokes of 'same' that have settled on A
CameBack == {m \in DOMAIN settled : issued[m].functionId = "same"}

\* C39: descriptor round trip: when B passes back to A a stub of a function
\* that A exported, A's import yields A's original function object (not a new
\* stub), B adds no functionRegistry entry for the stub it forwards, and
\* calling the value on A runs the function locally without sending any
\* message.
C39RoundTrip ==
  /\ \A m \in CameBack :
       LET f == issued[m].args[1].n
       IN  /\ settled[m] = Resolved(Obj(f))
           /\ callValue(World, m, settled[m].v, << Val(1) >>)
                = [w |-> World, pc |-> "ret", wait |-> "",
                   out |-> Resolved(Val(1 + heap[f].p))]
  /\ DOMAIN functionRegistry["B"] = {"same"}
  /\ \A id \in DOMAIN objectMap["B"] :
       id # "same" => heap[objectMap["B"][id]].kind = "stub"

(***************************************************************************)
(* SpecDotnet: the .NET controller.  User code registers the delegates f   *)
(* and g under the identifiers 'x' and 'y', keeps the handles Register     *)
(* returned and disposes them at any moment, and registers again.          *)
(***************************************************************************)
MaxWrappers == 4

Delegates == {Delegate("f"), Delegate("g")}

\* the variables of the TypeScript controllers
controllers ==
  << heap, objectMap, functionRegistry, fr, invocations, net, tasks, settled,
     uuid, issued, execs, warns, handles, gens, nUser, nFab, fifo, sent,
     replies, origin, released, send, wnet, failed, thrown, script,
     produceStackTrace >>

\* user code calls Register(functionId, f)
CallRegister(functionId, f) ==
  /\ dotnet.wrappers < MaxWrappers
  /\ dotnet' = DotnetRegister(dotnet, functionId, f)
  /\ UNCHANGED controllers

\* user code disposes the handle d
Dispose(d) ==
  /\ d \in dotnet.disposers
  /\ dotnet' = InternalRelease(dotnet, d.functionId, d.fobj)
  /\ UNCHANGED controllers

NextDotnet ==
  \/ \E functionId \in {"x", "y"} : \E f \in Delegates : CallRegister(functionId, f)
  \/ \E d \in dotnet.disposers : Dispose(d)

SpecDotnet == InitFrom(EmptyWorld) /\ [][NextDotnet]_vars

\* d is the handle of the registration functionRegistry holds
InForce(d) ==
  /\ d.functionId \in DOMAIN dotnet.functionRegistry
  /\ dotnet.functionRegistry[d.functionId] = d.fobj

\* C40: in the .NET controller, disposing the handle returned by Register
\* undoes the registration: afterwards the function identifier is in neither
\* functionRegistry nor objectMap, the delegate is no longer watched by the
\* finalization registry, and Register with the same identifier and the same
\* delegate succeeds again.
C40DisposeUndoes ==
  [][\A d \in dotnet.disposers :
       InForce(d) /\ Dispose(d) =>
         /\ d.functionId \notin DOMAIN dotnet'.functionRegistry
         /\ d.functionId \notin DOMAIN dotnet'.objectMap
         /\ ~ContainsKey(dotnet'.registry, Delegate(d.fobj.of))
         /\ DotnetRegister(dotnet', d.functionId, Delegate(d.fobj.of)).thrown = ""]_vars

====
